---- MODULE Spec2Model ----
(***************************************************************************)
(* CadForge CLI: the permission evaluator, the hook runner, the tool       *)
(* executor, the session recorder and the agentic loop of the Agent.       *)
(*                                                                         *)
(* Strings whose characters matter (permission arguments, glob patterns,   *)
(* shell commands) are sequences of one-character strings.  Tool names     *)
(* and other identifiers are atoms.                                        *)
(***************************************************************************)
EXTENDS Integers, Sequences, FiniteSets, TLC

VARIABLES
  fnIn,         \* input of the pure-function call under study (a tagged record)
  fnOut,        \* its result as a one-element sequence, empty before the call
  sub,          \* the SubagentExecutor.runLocal call under study and what its provider does
  repl,         \* the store of the REPL: the interaction mode and what the prompt did last
  conc,         \* one Agent on which two processMessage calls may overlap
  settings,     \* Agent.settings: permissions and hooks, fixed at construction
  entries,      \* Session.entries
  permissions,  \* ToolExecutor.permissions
  contextState, \* Agent.contextState
  pc,           \* where the processMessage call stands: "idle", "loop", "tools"
  mode,         \* processMessage: mode
  aborted,      \* processMessage: signal.aborted
  originalPermissions, \* processMessage: originalPermissions
  tools,        \* processMessage: the tool definitions offered to the provider
  messages,     \* runAgenticLoop: messages
  iter,         \* runAgenticLoop: i
  toolUses,     \* runAgenticLoop: toolUses of the current response
  toolResults,  \* runAgenticLoop: toolResults collected so far
  sent,         \* the provider stream calls of the current call: the history of the last one
  streamCalls,  \* the number of provider stream calls of the current call
  lastExec,     \* what the most recent Tool Executor call did (none yet in the current call)
  outcome,      \* how the last processMessage call ended: "none", "returned", "threw"
  retText,      \* the text the last processMessage call returned
  callBase,     \* the number of session entries when the current call began
  apiOut,       \* the result of the last getApiMessages call of a session reader
  trace,        \* the events the current call emitted and the calls it made, in order
  longRun       \* TRUE in the runs in which the provider never stops asking for tools

pureVars == <<fnIn, fnOut>>

agentVars ==
  <<settings, entries, permissions, contextState, pc, mode, aborted, originalPermissions,
    tools, messages, iter, toolUses, toolResults, sent, streamCalls, lastExec, outcome,
    retText, callBase, apiOut, trace, longRun, conc>>

vars == <<fnIn, fnOut, repl, sub, agentVars>>

-----------------------------------------------------------------------------
(* Bounds *)

MaxPatLen == 3      \* longest enumerated glob pattern
MaxArgLen == 3      \* longest enumerated permission argument
MaxRules == 2       \* most rules in one enumerated permission configuration
MaxEntries == 4     \* session length up to which the provider may ask for tools
MaxLongCalls == 2   \* processMessage calls in a run that reaches the iteration cap
MaxHistory == 10    \* longest history handed to compactMessages
MaxKeep == 4        \* largest keepRecent handed to compactMessages
MaxSseEvents == 2   \* most events in one subagent event stream
MaxReads == 3       \* most reads in which the body of one stream arrives

-----------------------------------------------------------------------------
(* Strings *)

Undefined == "undefined"

\* all sequences over S of length at most n
SeqsUpTo(S, n) == UNION {[1..k -> S] : k \in 0..n}

Range(s) == {s[i] : i \in 1..Len(s)}

\* the elements of sequence s from position k on
DropTo(s, k) == SubSeq(s, k, Len(s))

-----------------------------------------------------------------------------
(* Permission evaluator: matchRule and evaluatePermission *)

\* A rule string is held in the form the rule regex /^(\w+)\((.+)\)$/ reads it:
\* head is the text before the first "(" (the whole string when there is none),
\* paren says whether the string is head(pat), pat is the text between the first
\* "(" and the final ")".
Rule(head, pat) == [head |-> head, paren |-> TRUE, pat |-> pat]
Bare(head) == [head |-> head, paren |-> FALSE, pat |-> <<>>]

\* \w+ : the heads of the model are tool names, the empty string and "*"
IsWord(head) == head # "" /\ head # "*"

\* rule.match(/^(\w+)\((.+)\)$/) succeeded
RuleParses(rule) == rule.paren /\ IsWord(rule.head) /\ Len(rule.pat) > 0

\* String.replace(/\*\*/g, '.*')
RECURSIVE ReplaceStarStar(_)
ReplaceStarStar(p) ==
  IF Len(p) = 0 THEN <<>>
  ELSE IF Len(p) >= 2 /\ p[1] = "*" /\ p[2] = "*"
       THEN <<".", "*">> \o ReplaceStarStar(DropTo(p, 3))
       ELSE <<p[1]>> \o ReplaceStarStar(Tail(p))

\* String.replace(/\*/g, '[^/]*')
RECURSIVE ReplaceStar(_)
ReplaceStar(p) ==
  IF Len(p) = 0 THEN <<>>
  ELSE IF p[1] = "*"
       THEN <<"[", "^", "/", "]", "*">> \o ReplaceStar(Tail(p))
       ELSE <<p[1]>> \o ReplaceStar(Tail(p))

\* String.replace(/\?/g, '.')
RECURSIVE ReplaceQuestion(_)
ReplaceQuestion(p) ==
  IF Len(p) = 0 THEN <<>>
  ELSE <<(IF p[1] = "?" THEN "." ELSE p[1])>> \o ReplaceQuestion(Tail(p))

\* the three chained replacements of matchRule / matchesHook
GlobToRegex(p) == ReplaceQuestion(ReplaceStar(ReplaceStarStar(p)))

\* new RegExp(`^${regex}$`).test(s) for the regex text the replacements produce:
\* "[^/]*" is a starred class, "." is any character, the rest is literal.
RECURSIVE RegexTest(_, _)
RegexTest(r, s) ==
  IF Len(r) = 0 THEN Len(s) = 0
  ELSE IF r[1] = "["
       THEN \E k \in 0..Len(s) :
              /\ \A j \in 1..k : s[j] # "/"
              /\ RegexTest(DropTo(r, 6), DropTo(s, k + 1))
       ELSE /\ Len(s) > 0
            /\ (r[1] = "." \/ r[1] = s[1])
            /\ RegexTest(Tail(r), Tail(s))

matchRule(rule, toolName, argument) ==
  IF ~RuleParses(rule) THEN FALSE
  ELSE IF rule.head # toolName THEN FALSE
  ELSE IF rule.pat = <<"*">> THEN TRUE
  ELSE RegexTest(GlobToRegex(rule.pat), argument)

\* for (const rule of rules) { if (matchRule(rule, ...)) return ... } :
\* the position of the first matching rule, 0 when the loop falls through
RECURSIVE FirstMatch(_, _, _, _)
FirstMatch(rules, k, toolName, argument) ==
  IF k > Len(rules) THEN 0
  ELSE IF matchRule(rules[k], toolName, argument) THEN k
  ELSE FirstMatch(rules, k + 1, toolName, argument)

evaluatePermissionAllowFirst(perms, toolName, argument) ==
  IF FirstMatch(perms.allow, 1, toolName, argument) # 0 THEN "allow"
  ELSE IF FirstMatch(perms.deny, 1, toolName, argument) # 0 THEN "deny"
  ELSE "ask"

evaluatePermission(perms, toolName, argument) ==
  IF FirstMatch(perms.deny, 1, toolName, argument) # 0 THEN "deny"
  ELSE IF FirstMatch(perms.allow, 1, toolName, argument) # 0 THEN "allow"
  ELSE IF FirstMatch(perms.ask, 1, toolName, argument) # 0 THEN "ask"
  ELSE "ask"

-----------------------------------------------------------------------------
(* Hook runner: matchesHook, executeHook, getMatchingHooks, runHooks *)

isBlockedOnExitOne(result) == result.exitCode = 1

isBlocked(result) == result.exitCode = 2

\* matcher strings are held in the same form as permission rules
matchesHook(matcher, toolName, toolArg) ==
  IF matcher = Bare("*") THEN TRUE
  ELSE IF ~RuleParses(matcher) THEN (~matcher.paren /\ matcher.head = toolName)
  ELSE IF matcher.head # toolName THEN FALSE
  ELSE IF matcher.pat = <<"*">> THEN TRUE
  ELSE RegexTest(GlobToRegex(matcher.pat), toolArg)

\* What execSync does with the command is the environment's choice exits[command]:
\* an exit status (0 returns, any other is thrown with that status), StatusNull for
\* an error thrown with status null (the command was killed at the timeout), and
\* NoStatus for an error thrown without a status (the command was not started).
StatusNull == 0 - 1
NoStatus == 0 - 2

executeHookFailureBlocks(hook, exits) ==
  [command |-> hook.command,
   exitCode |-> IF exits[hook.command] < 0 THEN 2 ELSE exits[hook.command],
   stderr |-> IF exits[hook.command] = 0 THEN <<>> ELSE <<"stderr", hook.command>>]

\* a command that exits 0 yields an empty stderr, a thrown error with a status its
\* own stderr and err.status ?? 1, one without a status its message and 1
executeHook(hook, exits) ==
  [command |-> hook.command,
   exitCode |-> IF exits[hook.command] < 0 THEN 1 ELSE exits[hook.command],
   stderr |-> IF exits[hook.command] = 0 THEN <<>>
              ELSE IF exits[hook.command] = NoStatus THEN <<"message", hook.command>>
              ELSE <<"stderr", hook.command>>]

RECURSIVE getMatchingHooks(_, _, _, _)
getMatchingHooks(configs, event, toolName, toolArg) ==
  IF Len(configs) = 0 THEN <<>>
  ELSE LET config == Head(configs)
           rest == getMatchingHooks(Tail(configs), event, toolName, toolArg)
           matcher == IF config.matcher = Bare(Undefined) THEN Bare("*") ELSE config.matcher
       IN IF config.event # event THEN rest
          ELSE IF event \in {"PreToolUse", "PostToolUse"}
                  /\ ~matchesHook(matcher, toolName, toolArg) THEN rest
          ELSE config.hooks \o rest

RECURSIVE RunHookListNoBreak(_, _)
RunHookListNoBreak(hooks, exits) ==
  IF Len(hooks) = 0 THEN <<>>
  ELSE <<executeHook(Head(hooks), exits)>> \o RunHookListNoBreak(Tail(hooks), exits)

\* for (const hook of hooks) { results.push(...); if (isBlocked(result)) break; }
RECURSIVE RunHookList(_, _)
RunHookList(hooks, exits) ==
  IF Len(hooks) = 0 THEN <<>>
  ELSE LET result == executeHook(Head(hooks), exits)
       IN IF isBlocked(result) THEN <<result>>
          ELSE <<result>> \o RunHookList(Tail(hooks), exits)

runHooks(configs, event, toolName, toolArg, exits) ==
  RunHookList(getMatchingHooks(configs, event, toolName, toolArg), exits)

-----------------------------------------------------------------------------
(* Tool registry and tool executor *)

\* TOOL_REGISTRY, in order
ToolDefinitions ==
  <<"ReadFile", "WriteFile", "ListFiles", "Bash", "ExecuteCadQuery", "AnalyzeMesh",
    "SearchVault", "ShowPreview", "ExportModel", "RenderModel", "GetPrinter", "Task">>

getToolDefinitions == Range(ToolDefinitions)

\* Agent.registerToolHandlers
SyncHandlers ==
  {"ReadFile", "WriteFile", "ListFiles", "Bash", "GetPrinter", "ExecuteCadQuery",
   "AnalyzeMesh", "ShowPreview", "ExportModel", "SearchVault", "SearchWeb"}
AsyncHandlers == {"Task"}

IsSpace(c) == c = " "

\* String.split(/\s+/): the pieces between maximal runs of white space
RECURSIVE SkipSpaces(_)
SkipSpaces(s) == IF Len(s) > 0 /\ IsSpace(s[1]) THEN SkipSpaces(Tail(s)) ELSE s

RECURSIVE SplitSpaces(_, _)
SplitSpaces(s, piece) ==
  IF Len(s) = 0 THEN <<piece>>
  ELSE IF IsSpace(s[1]) THEN <<piece>> \o SplitSpaces(SkipSpaces(s), <<>>)
  ELSE SplitSpaces(Tail(s), Append(piece, s[1]))

\* String.split(/\s+/, 2)
SplitSpaces2(s) ==
  LET all == SplitSpaces(s, <<>>)
  IN IF Len(all) > 2 THEN SubSeq(all, 1, 2) ELSE all

\* toolInput holds the value of the tool's permission field (command, path,
\* output_name, source, pattern, query, agent_type): <<value>>, or <<>> when
\* the field is absent
extractPermissionArg(toolName, toolInput) ==
  IF toolName = "Bash"
  THEN LET cmd == IF toolInput = <<>> THEN <<>> ELSE toolInput[1]
           parts == SplitSpaces2(cmd)
       IN IF Len(parts) > 1 THEN parts[1] \o <<":">> \o parts[2] ELSE parts[1]
  ELSE IF toolName \in {"ReadFile", "WriteFile", "AnalyzeMesh", "ShowPreview",
                        "ExecuteCadQuery", "SearchVault", "ExportModel",
                        "ListFiles", "Task"}
  THEN IF toolInput = <<>> THEN <<"*">> ELSE toolInput[1]
  ELSE <<"*">>

\* ToolExecResult values
ErrorText(kind, stderr) == [kind |-> kind, stderr |-> stderr]
NoError == ErrorText("null", <<>>)
FailureAlwaysBlocked(error, blocked) ==
  [success |-> FALSE, result |-> [of |-> "null"], error |-> error, blocked |-> TRUE]

Failure(error, blocked) ==
  [success |-> FALSE, result |-> [of |-> "null"], error |-> error, blocked |-> blocked]
Success(result) ==
  [success |-> TRUE, result |-> result, error |-> NoError, blocked |-> FALSE]

\* What one executor call did: the ToolExecResult it returned (or that it threw)
\* with the steps it went through.
ExecRecord(api, toolName, arg, perm, asked, pre, invoked, post, threw, res) ==
  [api |-> api, name |-> toolName, arg |-> arg, perm |-> perm, asked |-> asked,
   pre |-> pre, handlerInvoked |-> invoked, post |-> post, threw |-> threw,
   result |-> res]

NoResult == Failure(NoError, FALSE)

NoExec == ExecRecord("none", "none", <<>>, "none", "none", <<>>, FALSE, <<>>, FALSE, NoResult)

\* the first blocking result of a hook run, 0 if there is none
RECURSIVE FirstBlocked(_, _)
FirstBlocked(results, k) ==
  IF k > Len(results) THEN 0
  ELSE IF isBlocked(results[k]) THEN k
  ELSE FirstBlocked(results, k + 1)

\* The environment of one executor call: env.answer is what the confirmation
\* callback does, env.exits the exit status of each hook command, env.handler
\* what the handler does.
CallbackAnswers == {"true", "false", "promise_true", "promise_false", "promise_reject"}
HandlerOutcomes == {"ok", "throw", "reject"}
ExitCodes == {0, 1, 2}

OutputFailingOnPostBlock(post, payload) ==
  IF FirstBlocked(post, 1) # 0
  THEN Failure(ErrorText("Blocked by hook", post[FirstBlocked(post, 1)].stderr), TRUE)
  ELSE Success(payload)

\* the output of a call whose handler returned: the results of the PostToolUse
\* hooks are dropped
Output(post, payload) == Success(payload)

\* steps (2)-(5) of execute and executeAsync: hooks, handler lookup, handler
AfterPermission(api, toolName, arg, perm, asked, hookConfigs, env) ==
  LET pre == runHooks(hookConfigs, "PreToolUse", toolName, arg, env.exits)
      b == FirstBlocked(pre, 1)
      post == runHooks(hookConfigs, "PostToolUse", toolName, arg, env.exits)
      hasHandler == IF api = "executeAsync"
                    THEN toolName \in AsyncHandlers \cup SyncHandlers
                    ELSE toolName \in SyncHandlers
      \* execute does not await: a handler whose promise rejects has returned
      failed == IF api = "executeAsync" THEN env.handler \in {"throw", "reject"}
                ELSE env.handler = "throw"
  IN IF b # 0
     THEN ExecRecord(api, toolName, arg, perm, asked, pre, FALSE, <<>>, FALSE,
                     Failure(ErrorText("Blocked by hook", pre[b].stderr), TRUE))
     ELSE IF ~hasHandler
     THEN ExecRecord(api, toolName, arg, perm, asked, pre, FALSE, <<>>, FALSE,
                     Failure(ErrorText("No handler registered for tool", <<>>), FALSE))
     ELSE IF failed
     THEN ExecRecord(api, toolName, arg, perm, asked, pre, TRUE, <<>>, FALSE,
                     Failure(ErrorText("exception", <<>>), FALSE))
     ELSE ExecRecord(api, toolName, arg, perm, asked, pre, TRUE, post, FALSE,
                     Output(post, [of |-> toolName]))

Denied(api, toolName, arg, perm, asked, kind) ==
  ExecRecord(api, toolName, arg, perm, asked, <<>>, FALSE, <<>>, FALSE,
             Failure(ErrorText(kind, <<>>), TRUE))

\* ToolExecutor.execute
execute(toolName, toolInput, perms, hookConfigs, env) ==
  LET arg == extractPermissionArg(toolName, toolInput)
      perm == evaluatePermission(perms, toolName, arg)
  IN IF perm = "deny" THEN Denied("execute", toolName, arg, perm, "none", "Permission denied")
     ELSE IF perm = "ask" /\ env.answer = "false"
     THEN Denied("execute", toolName, arg, perm, env.answer, "User denied")
     ELSE AfterPermission("execute", toolName, arg, perm,
                          IF perm = "ask" THEN env.answer ELSE "none", hookConfigs, env)

\* ToolExecutor.executeAsync
executeAsync(toolName, toolInput, perms, hookConfigs, env) ==
  LET arg == extractPermissionArg(toolName, toolInput)
      perm == evaluatePermission(perms, toolName, arg)
  IN IF perm = "deny" THEN Denied("executeAsync", toolName, arg, perm, "none", "Permission denied")
     ELSE IF perm = "ask" /\ env.answer = "promise_reject"
     THEN \* await of a rejected promise: the call itself rejects
          ExecRecord("executeAsync", toolName, arg, perm, env.answer, <<>>, FALSE, <<>>,
                     TRUE, NoResult)
     ELSE IF perm = "ask" /\ env.answer \in {"false", "promise_false"}
     THEN Denied("executeAsync", toolName, arg, perm, env.answer, "User denied")
     ELSE AfterPermission("executeAsync", toolName, arg, perm,
                          IF perm = "ask" THEN env.answer ELSE "none", hookConfigs, env)

-----------------------------------------------------------------------------
(* Messages, content blocks and the session recorder *)

\* content is a string (isArray = FALSE) or an array of content blocks
Text(t) == [isArray |-> FALSE, text |-> t, blocks |-> <<>>]
Blocks(bs) == [isArray |-> TRUE, text |-> "", blocks |-> bs]

Message(role, content) == [role |-> role, content |-> content]

TextBlock(t) == [type |-> "text", text |-> t]
ToolUseBlock(id, name, input) == [type |-> "tool_use", id |-> id, name |-> name, input |-> input]

\* the content of a tool_result block: a plain string, or the JSON text of the
\* handler's result or of {error: ...}
StringContent(t) == [json |-> FALSE, text |-> t, error |-> NoError, value |-> [of |-> "null"]]
JsonContent(res) ==
  [json |-> TRUE, text |-> IF res.success THEN "result" ELSE "error",
   error |-> res.error, value |-> res.result]

InterruptedText == "Session was interrupted before tool execution completed."

\* content.filter((b) => b.type === 'tool_use')
ToolUsesOf(blocks) == SelectSeq(blocks, LAMBDA b : b.type = "tool_use")

ToolUseIds(content) ==
  IF content.isArray
  THEN [i \in 1..Len(ToolUsesOf(content.blocks)) |-> ToolUsesOf(content.blocks)[i].id]
  ELSE <<>>

ErrorResults(toolUseIds) ==
  [i \in 1..Len(toolUseIds) |->
     [type |-> "tool_result", tool_use_id |-> toolUseIds[i],
      content |-> StringContent(InterruptedText), is_error |-> TRUE]]

\* Session.getApiMessages
getApiMessagesNoRepair(sessionEntries) ==
  SelectSeq(sessionEntries, LAMBDA e : e.role \in {"user", "assistant"})

getApiMessages(sessionEntries) ==
  LET apiMsgs == SelectSeq(sessionEntries, LAMBDA e : e.role \in {"user", "assistant"})
      n == Len(apiMsgs)
  IN IF n > 0 /\ apiMsgs[n].role = "assistant" /\ apiMsgs[n].content.isArray
        /\ Len(ToolUseIds(apiMsgs[n].content)) > 0
     THEN Append(apiMsgs, Message("user", Blocks(ErrorResults(ToolUseIds(apiMsgs[n].content)))))
     ELSE apiMsgs

-----------------------------------------------------------------------------
(* Context manager *)

CHARS_PER_TOKEN == 4
DEFAULT_CONTEXT_WINDOW == 200000
COMPACTION_THRESHOLD_PERCENT == 80
KeepRecentDefault == 4
CompactMinMessages == 8

\* the lengths of the texts of the model
HugeLen == 640000
TextLen(t) ==
  CASE t = "huge" -> HugeLen
    [] t = "hi" -> 2
    [] t = "answer" -> 6
    [] t = "Failed to get response from API" -> 31
    [] t = "summary" -> 120
    [] OTHER -> 0

Max(a, b) == IF a >= b THEN a ELSE b

estimateTokens(len) == Max(1, len \div CHARS_PER_TOKEN)

\* String(b.input) of an object is "[object Object]"
ObjectStringLen == 15

RECURSIVE estimateBlocksTokens(_)
estimateBlocksTokens(blocks) ==
  IF Len(blocks) = 0 THEN 0
  ELSE LET b == Head(blocks)
           t == IF b.type = "text" THEN estimateTokens(TextLen(b.text))
                ELSE IF b.type = "tool_use" THEN estimateTokens(ObjectStringLen)
                ELSE 0
       IN t + estimateBlocksTokens(Tail(blocks))

estimateMessageTokens(message) ==
  IF message.content.isArray THEN estimateBlocksTokens(message.content.blocks)
  ELSE estimateTokens(TextLen(message.content.text))

RECURSIVE estimateMessagesTokens(_)
estimateMessagesTokens(msgs) ==
  IF Len(msgs) = 0 THEN 0
  ELSE estimateMessageTokens(Head(msgs)) + estimateMessagesTokens(Tail(msgs))

\* usageRatio(state) >= COMPACTION_THRESHOLD
needsCompaction(state) ==
  state.contextWindow > 0
  /\ state.estimatedTokens * 100 >= COMPACTION_THRESHOLD_PERCENT * state.contextWindow

\* messages.slice(-keepRecent); -0 is 0, and slice(0) is the whole array
sliceLast(msgs, keepRecent) ==
  IF keepRecent = 0 THEN msgs
  ELSE SubSeq(msgs, Max(Len(msgs) - keepRecent, 0) + 1, Len(msgs))

\* the summary message stands for the summary between its two fixed marker lines
compactMessages(msgs, summary, keepRecent) ==
  IF Len(msgs) <= keepRecent THEN msgs
  ELSE <<Message("user", Text(summary))>> \o sliceLast(msgs, keepRecent)

-----------------------------------------------------------------------------
(* Interaction modes *)

Modes == {"agent", "plan", "ask"}

PLAN_MODE_TOOLS == {"ReadFile", "ListFiles", "SearchVault", "Bash", "GetPrinter", "Task"}

getModeToolsAskAsPlan(m) ==
  IF m = "agent" THEN [isNull |-> TRUE, names |-> {}]
  ELSE [isNull |-> FALSE, names |-> PLAN_MODE_TOOLS]

\* getModeTools: null (no filter) for agent mode
getModeTools(m) ==
  IF m = "agent" THEN [isNull |-> TRUE, names |-> {}]
  ELSE IF m = "plan" THEN [isNull |-> FALSE, names |-> PLAN_MODE_TOOLS]
  ELSE [isNull |-> FALSE, names |-> {}]

Star == <<"*">>

getPlanModePermissions ==
  [deny |-> <<Rule("WriteFile", Star), Rule("ExecuteCadQuery", Star), Rule("ExportModel", Star),
              Rule("AnalyzeMesh", Star), Rule("ShowPreview", Star), Rule("SearchWeb", Star)>>,
   allow |-> <<Rule("ReadFile", Star), Rule("ListFiles", Star), Rule("SearchVault", Star),
               Rule("GetPrinter", Star), Rule("Task", Star), Rule("Bash", Star)>>,
   ask |-> <<>>]

\* DEFAULT_SETTINGS.permissions
DefaultPermissions ==
  [deny |-> <<Rule("Bash", <<"r", "m", ":", "*">>), Rule("Bash", <<"s", "u", "d", "o", ":", "*">>),
              Rule("WriteFile", <<"*", "*", "/", ".", "e", "n", "v">>)>>,
   allow |-> <<Rule("ReadFile", Star), Rule("SearchVault", Star), Rule("AnalyzeMesh", Star),
               Rule("GetPrinter", Star), Rule("Task", <<"e", "x", "p", "l", "o", "r", "e">>),
               Rule("Task", <<"p", "l", "a", "n">>)>>,
   ask |-> <<Rule("ExecuteCadQuery", Star), Rule("WriteFile", Star), Rule("Bash", Star),
             Rule("ExportModel", Star), Rule("Task", <<"c", "a", "d">>)>>]

-----------------------------------------------------------------------------
(* The environment of the Agent: settings, resumed sessions, provider, tools *)

HookDef(command) == [type |-> "command", command |-> command]
HookCommands == {"h1", "h2", "h3"}

\* settings.hooks
NoHooks == <<>>
SomeHooks ==
  << [event |-> "PreToolUse", matcher |-> Rule("WriteFile", Star),
      hooks |-> <<HookDef("h1"), HookDef("h2")>>],
     [event |-> "PreToolUse", matcher |-> Bare("Bash"), hooks |-> <<HookDef("h2")>>],
     [event |-> "PostToolUse", matcher |-> Bare(Undefined), hooks |-> <<HookDef("h3")>>] >>

\* loadHookConfigs
loadHookConfigs(hooksData) == SelectSeq(hooksData, LAMBDA h : h.event # "" /\ Len(h.hooks) > 0)

\* permission rules of a user who allows every tool of the model
AllowAllPermissions ==
  [deny |-> <<>>,
   allow |-> <<Rule("ReadFile", Star), Rule("WriteFile", Star), Rule("Bash", Star),
               Rule("ExecuteCadQuery", Star), Rule("ExportModel", Star)>>,
   ask |-> <<>>]

DefaultSettings == [permissions |-> DefaultPermissions, hooks |-> NoHooks]

SettingsChoices ==
  { DefaultSettings,
    [permissions |-> DefaultPermissions, hooks |-> SomeHooks],
    [permissions |-> AllowAllPermissions, hooks |-> SomeHooks] }

\* tool calls a provider response may hold: the tool name and its permission field
ToolCall(name, input) == [name |-> name, input |-> input]
ReadCall == ToolCall("ReadFile", << <<"a">> >>)
WriteCall == ToolCall("WriteFile", << <<"a">> >>)
BashRmCall == ToolCall("Bash", << <<"r", "m", " ", "a">> >>)
BashLsCall == ToolCall("Bash", << <<"l", "s">> >>)
CadCall == ToolCall("ExecuteCadQuery", <<>>)
ExportCall == ToolCall("ExportModel", << <<"a">> >>)
RenderCall == ToolCall("RenderModel", <<>>)
TextItem == ToolCall("text", <<>>)

ToolCalls == {ReadCall, WriteCall, BashRmCall, BashLsCall, CadCall, ExportCall, RenderCall}

\* the shapes of a provider response: text only, one tool use, text and tool
\* uses, several tool uses
TextShapes == { <<TextItem>> }
ToolShapes ==
  { <<c>> : c \in ToolCalls } \cup
  { <<TextItem, WriteCall>>, <<ReadCall, BashLsCall>> }

\* tool_use ids are unique in a session
NewId(sessionEntries, k) == Len(sessionEntries) * 10 + k

ResponseContent(shape, sessionEntries) ==
  [k \in 1..Len(shape) |->
     IF shape[k].name = "text" THEN TextBlock("answer")
     ELSE ToolUseBlock(NewId(sessionEntries, k), shape[k].name, shape[k].input)]

\* sessions an Agent is constructed on: a new one, and resumed ones, among
\* them sessions that were interrupted after an assistant turn with tool uses
EmptySession == <<>>
ClosedSession ==
  << Message("system", Text("hi")), Message("user", Text("hi")),
     Message("assistant", Text("answer")) >>
DanglingSession2 ==
  << Message("user", Text("hi")),
     Message("assistant", Blocks(<<ToolUseBlock(1, "ReadFile", << <<"a">> >>),
                                   ToolUseBlock(2, "WriteFile", << <<"a">> >>)>>)) >>
DanglingSession1 ==
  << Message("user", Text("hi")),
     Message("assistant", Blocks(<<TextBlock("answer"), ToolUseBlock(1, "Bash", << <<"l", "s">> >>)>>)) >>

InitialSessions == {EmptySession, ClosedSession, DanglingSession2, DanglingSession1}

\* the Agents of the model: any settings on a new session, the default
\* settings on a resumed one
Constructions ==
  { [settings |-> st, session |-> EmptySession] : st \in SettingsChoices } \cup
  { [settings |-> DefaultSettings, session |-> ss] : ss \in InitialSessions }

UserInputs(sessionEntries) ==
  IF Len(sessionEntries) >= CompactMinMessages THEN {"hi", "huge"} ELSE {"hi"}

ExecEnvs == [answer : CallbackAnswers, exits : [HookCommands -> ExitCodes], handler : HandlerOutcomes]

HookCommandsOf(hookConfigs, event, toolName, arg) ==
  {h.command : h \in Range(getMatchingHooks(hookConfigs, event, toolName, arg))}

\* The environments that differ in what the Agent can observe of a call of
\* the tool: the callback answers only when asked, only the commands of matching
\* PreToolUse hooks decide anything (the results of PostToolUse hooks are dropped).
EnvsFor(toolName, toolInput, perms, hookConfigs) ==
  LET arg == extractPermissionArg(toolName, toolInput)
      ran == HookCommandsOf(hookConfigs, "PreToolUse", toolName, arg)
      answers == IF evaluatePermission(perms, toolName, arg) = "ask"
                 THEN CallbackAnswers ELSE {"true"}
      exitChoices == {f \in [HookCommands -> ExitCodes] : \A h \in HookCommands \ ran : f[h] = 0}
  IN [answer : answers, exits : exitChoices, handler : HandlerOutcomes]

\* the environment of the runs that reach the iteration cap
DefaultEnv == [answer |-> "true", exits |-> [h \in HookCommands |-> 0], handler |-> "ok"]

-----------------------------------------------------------------------------
(* Agent *)

\* what the Agent keeps in view of an executor call: the tool, the permission
\* decision, whether the handler ran, and the result or the exception
Done(x) ==
  [name |-> x.name, arg |-> x.arg, perm |-> x.perm, handlerInvoked |-> x.handlerInvoked,
   threw |-> x.threw, result |-> x.result]

MAX_ITERATIONS == 20

createContextState == [estimatedTokens |-> 0, contextWindow |-> DEFAULT_CONTEXT_WINDOW,
                       compactionCount |-> 0]

\* An Agent on which no processMessage call runs: the executor holds the configured
\* permissions; each of the two calls keeps its mode, its local originalPermissions,
\* the permission configurations its tool calls were evaluated under and the last
\* decision
ConcCalls == {1, 2}

ConcIdle ==
  [permissions |-> DefaultPermissions,
   calls |-> [i \in ConcCalls |->
                [pc |-> "idle", mode |-> "agent", originalPermissions |-> DefaultPermissions,
                 evaluated |-> {}, perm |-> "none"]]]

AgentInit ==
  /\ longRun \in BOOLEAN
  /\ conc = ConcIdle
  /\ \E c \in (IF longRun THEN {[settings |-> DefaultSettings, session |-> EmptySession]}
                 ELSE Constructions) :
       /\ settings = c.settings
       /\ entries = c.session
  /\ permissions = settings.permissions
  /\ contextState = createContextState
  /\ pc = "idle"
  /\ mode = "agent"
  /\ aborted = FALSE
  /\ originalPermissions = settings.permissions
  /\ tools = {}
  /\ messages = <<>>
  /\ iter = 0
  /\ toolUses = <<>>
  /\ toolResults = <<>>
  /\ sent = <<>>
  /\ streamCalls = 0
  /\ lastExec = Done(NoExec)
  /\ outcome = "none"
  /\ retText = ""
  /\ callBase = 0
  /\ apiOut = <<>>
  /\ trace = <<>>

\* Agent.generateSummary
generateSummary(msgs) == "summary"

\* processMessage up to the call of runAgenticLoop
ProcessMessage(userInput, m) ==
  /\ pc = "idle"
  /\ IF longRun THEN Len(entries) < MaxLongCalls * (2 * MAX_ITERATIONS + 1) /\ m = "agent"
     ELSE Len(entries) < MaxEntries
  /\ LET recorded == Append(entries, Message("user", Text(userInput)))
         history == getApiMessages(recorded)
         tokens == estimateMessagesTokens(history)
         state == [contextState EXCEPT !.estimatedTokens = tokens]
         compact == needsCompaction(state) /\ Len(history) > CompactMinMessages
         allowedToolNames == getModeTools(m)
     IN /\ entries' = recorded
        /\ callBase' = Len(entries)
        /\ messages' = IF compact
                       THEN compactMessages(history,
                                            generateSummary(SubSeq(history, 1, Len(history) - 4)),
                                            KeepRecentDefault)
                       ELSE history
        /\ contextState' = IF compact
                           THEN [state EXCEPT !.compactionCount = @ + 1]
                           ELSE state
        /\ tools' = IF allowedToolNames.isNull THEN getToolDefinitions
                    ELSE getToolDefinitions \cap allowedToolNames.names
  /\ mode' = m
  /\ originalPermissions' = permissions
  /\ permissions' = IF m = "plan" THEN getPlanModePermissions ELSE permissions
  /\ pc' = "loop"
  /\ iter' = 0
  /\ aborted' = FALSE
  /\ toolUses' = <<>>
  /\ toolResults' = <<>>
  /\ sent' = <<>>
  /\ streamCalls' = 0
  /\ outcome' = "none"
  /\ retText' = ""
  /\ apiOut' = <<>>
  /\ trace' = <<>>
  /\ lastExec' = Done(NoExec)
  /\ UNCHANGED <<fnIn, fnOut, repl, sub, conc, settings, longRun>>

ItemFlipped(type, id, isError) == [type |-> type, id |-> id, is_error |-> ~isError]

\* one item of the trace: an emitted event (status, tool_result, completion,
\* error, text_delta, tool_use_start) or a call made (stream, execute)
Item(type, id, isError) == [type |-> type, id |-> id, is_error |-> isError]

\* the head of an iteration: the status event and the provider call
StreamTrace == <<Item("status", 0, FALSE), Item("stream", 0, FALSE)>>

\* the events a provider emits while it streams the blocks of a response
ProviderEvents(content) ==
  [k \in 1..Len(content) |->
     IF content[k].type = "tool_use" THEN Item("tool_use_start", content[k].id, FALSE)
     ELSE Item("text_delta", 0, FALSE)]

ToolTraceReversed(uses, k, x) ==
  LET id == uses[Len(uses) + 1 - k].id
  IN <<Item("status", id, FALSE), Item("execute", id, FALSE)>>
       \o (IF x.threw THEN <<>> ELSE <<Item("tool_result", id, ~x.result.success)>>)

\* the body of the loop over toolUses for the k-th tool use: the status event,
\* the executeAsync call and, once it has returned, the tool-result event
ToolTrace(uses, k, x) ==
  LET id == uses[k].id
  IN <<Item("status", id, FALSE), Item("execute", id, FALSE)>>
       \o (IF x.threw THEN <<>> ELSE <<Item("tool_result", id, ~x.result.success)>>)

\* the tool_result block pushed for the k-th tool use
ToolResultBlockFirstId(uses, k, res) ==
  [type |-> "tool_result", tool_use_id |-> uses[1].id, content |-> JsonContent(res)]

ToolResultBlock(uses, k, res) ==
  [type |-> "tool_result", tool_use_id |-> uses[k].id, content |-> JsonContent(res)]

\* the finally block of processMessage
RestoreKeepingOverride == permissions' = permissions

Restore == permissions' = originalPermissions

\* processMessage returns text
Return(text) ==
  /\ pc' = "idle"
  /\ outcome' = "returned"
  /\ retText' = text
  /\ Restore

\* the cancel signal is raised while the call runs; the loop reads it only at
\* the head of an iteration, which is where it is raised here
Abort ==
  /\ pc = "loop"
  /\ ~longRun
  /\ ~aborted
  /\ aborted' = TRUE
  /\ UNCHANGED <<trace, fnIn, fnOut, repl, sub, conc, settings, entries, permissions, contextState, pc, mode, originalPermissions,
                 tools, messages, iter, toolUses, toolResults, sent, streamCalls, lastExec,
                 outcome, retText, callBase, apiOut, longRun>>

\* the loop ends at the iteration cap
MaxIterationsReached ==
  /\ pc = "loop"
  /\ iter >= MAX_ITERATIONS
  /\ Return("Maximum iterations reached. Please try a simpler request.")
  /\ UNCHANGED <<trace, fnIn, fnOut, repl, sub, conc, settings, entries, contextState, mode, aborted, originalPermissions, tools,
                 messages, iter, toolUses, toolResults, sent, streamCalls, lastExec,
                 callBase, apiOut, longRun>>

\* the cancellation check at the head of an iteration
Cancelled ==
  /\ pc = "loop"
  /\ iter < MAX_ITERATIONS
  /\ aborted
  /\ Return("Cancelled by user.")
  /\ trace' = Append(trace, Item("error", 0, FALSE))
  /\ UNCHANGED <<fnIn, fnOut, repl, sub, conc, settings, entries, contextState, mode, aborted, originalPermissions, tools,
                 messages, iter, toolUses, toolResults, sent, streamCalls, lastExec,
                 callBase, apiOut, longRun>>

StreamCalledIgnoringSignal ==
  /\ pc = "loop"
  /\ iter < MAX_ITERATIONS
  /\ sent' = messages
  /\ streamCalls' = streamCalls + 1

StreamCalledPastCap ==
  /\ pc = "loop"
  /\ ~aborted
  /\ sent' = messages
  /\ streamCalls' = streamCalls + 1

StreamCalled ==
  /\ pc = "loop"
  /\ iter < MAX_ITERATIONS
  /\ ~aborted
  /\ sent' = messages
  /\ streamCalls' = streamCalls + 1

\* the provider call fails: stream resolves to null
StreamFails ==
  /\ StreamCalled
  /\ ~longRun
  /\ entries' = Append(entries, Message("assistant", Text("Failed to get response from API")))
  /\ trace' = trace \o StreamTrace \o <<Item("error", 0, FALSE)>>
  /\ Return("Failed to get response from API")
  /\ UNCHANGED <<fnIn, fnOut, repl, sub, conc, settings, contextState, mode, aborted, originalPermissions, tools, messages,
                 iter, toolUses, toolResults, lastExec, callBase, apiOut, longRun>>

\* the provider call throws (a provider that is not implemented, a response
\* without body): the exception leaves runAgenticLoop and processMessage
StreamThrows ==
  /\ StreamCalled
  /\ ~longRun
  /\ pc' = "idle"
  /\ outcome' = "threw"
  /\ Restore
  /\ trace' = trace \o StreamTrace
  /\ UNCHANGED <<fnIn, fnOut, repl, sub, conc, settings, entries, contextState, mode, aborted, originalPermissions,
                 tools, messages, iter, toolUses, toolResults, lastExec, retText, callBase,
                 apiOut, longRun>>

\* the provider answers without tool use
StreamText(shape) ==
  /\ StreamCalled
  /\ ~longRun
  /\ entries' = Append(entries, Message("assistant", Text("answer")))
  /\ trace' = trace \o StreamTrace \o ProviderEvents(<<TextBlock("answer")>>)
                   \o <<Item("completion", 0, FALSE)>>
  /\ Return("answer")
  /\ UNCHANGED <<fnIn, fnOut, repl, sub, conc, settings, contextState, mode, aborted, originalPermissions, tools, messages,
                 iter, toolUses, toolResults, lastExec, callBase, apiOut, longRun>>

\* the provider answers with tool uses: the assistant message is recorded
StreamToolUse(shape) ==
  /\ StreamCalled
  /\ IF longRun THEN shape = <<ReadCall>> ELSE Len(entries) < MaxEntries
  /\ LET content == ResponseContent(shape, entries)
     IN /\ entries' = Append(entries, Message("assistant", Blocks(content)))
        /\ toolUses' = ToolUsesOf(content)
        /\ trace' = trace \o StreamTrace \o ProviderEvents(content)
  /\ toolResults' = <<>>
  /\ pc' = "tools"
  /\ UNCHANGED <<fnIn, fnOut, repl, sub, conc, settings, permissions, contextState, mode, aborted, originalPermissions,
                 tools, messages, iter, lastExec, outcome, retText, callBase, apiOut, longRun>>

\* one pass of the loop over toolUses; after the last block the results are
\* recorded as one user message and the working history is refreshed
ExecuteTool(env) ==
  /\ pc = "tools"
  /\ longRun => env = DefaultEnv
  /\ LET toolUse == toolUses[Len(toolResults) + 1]
         x == executeAsync(toolUse.name, toolUse.input, permissions, loadHookConfigs(settings.hooks), env)
         results == Append(toolResults, ToolResultBlock(toolUses, Len(toolResults) + 1, x.result))
     IN /\ lastExec' = Done(x)
        /\ trace' = trace \o ToolTrace(toolUses, Len(toolResults) + 1, x)
        /\ IF x.threw
           THEN /\ pc' = "idle"
                /\ outcome' = "threw"
                /\ Restore
                /\ UNCHANGED <<entries, messages, iter, toolResults, retText>>
           ELSE IF Len(results) < Len(toolUses)
           THEN /\ toolResults' = results
                /\ UNCHANGED <<entries, messages, iter, pc, outcome, permissions, retText>>
           ELSE /\ toolResults' = results
                /\ entries' = Append(entries, Message("user", Blocks(results)))
                /\ messages' = getApiMessages(entries')
                /\ iter' = iter + 1
                /\ pc' = "loop"
                /\ UNCHANGED <<outcome, permissions, retText>>
  /\ UNCHANGED <<fnIn, fnOut, repl, sub, conc, settings, contextState, mode, aborted, originalPermissions, tools, toolUses,
                 sent, streamCalls, callBase, apiOut, longRun>>

\* a reader of the session asks for the API-ready history of a session just
\* opened (new or resumed) or left behind by a call that failed
ReadApiMessages ==
  /\ pc = "idle"
  /\ outcome # "returned"
  /\ ~longRun
  /\ apiOut' = <<getApiMessages(entries)>>
  /\ UNCHANGED <<trace, fnIn, fnOut, repl, sub, conc, settings, entries, permissions, contextState, pc, mode, aborted,
                 originalPermissions, tools, messages, iter, toolUses, toolResults, sent,
                 streamCalls, lastExec, outcome, retText, callBase, longRun>>

Next ==
  \/ \E m \in Modes : \E u \in UserInputs(entries) : ProcessMessage(u, m)
  \/ Abort
  \/ MaxIterationsReached
  \/ Cancelled
  \/ StreamFails
  \/ StreamThrows
  \/ \E shape \in TextShapes : StreamText(shape)
  \/ \E shape \in ToolShapes : StreamToolUse(shape)
  \/ /\ pc = "tools"
     /\ \E env \in EnvsFor(toolUses[Len(toolResults) + 1].name,
                            toolUses[Len(toolResults) + 1].input,
                            permissions, loadHookConfigs(settings.hooks)) : ExecuteTool(env)
  \/ ReadApiMessages

-----------------------------------------------------------------------------
(* The subagent executor: configurations, tools and handlers *)

SubagentTypes == {"explore", "plan"}

createExploreConfig ==
  [name |-> "explore", tools |-> <<"ReadFile", "ListFiles", "SearchVault", "Bash">>,
   maxIterations |-> 10]

createPlanConfig ==
  [name |-> "plan", tools |-> <<"ReadFile", "ListFiles", "SearchVault">>,
   maxIterations |-> 10]

getSubagentConfig(agentType) ==
  IF agentType = "explore" THEN createExploreConfig ELSE createPlanConfig

\* the cases of the switch in buildToolHandlers
HandlerCases == {"ReadFile", "ListFiles", "Bash", "SearchVault"}

buildToolHandlersWithTask(config) ==
  {config.tools[k] : k \in 1..Len(config.tools)} \cup {"Task"}

\* buildToolHandlers: the names that get a handler
buildToolHandlers(config) ==
  {config.tools[k] : k \in 1..Len(config.tools)} \cap HandlerCases

\* allTools.filter((t) => allowedNames.has(t.name) && t.name !== 'Task')
subagentTools(config) ==
  {t \in getToolDefinitions : t \in {config.tools[k] : k \in 1..Len(config.tools)} /\ t # "Task"}

\* textParts.join('\n')
RECURSIVE joinLines(_)
joinLines(parts) ==
  IF parts = <<>> THEN <<>>
  ELSE IF Len(parts) = 1 THEN <<parts[1]>>
  ELSE <<parts[1], "\n">> \o joinLines(Tail(parts))

SubResult(success, output, agentName, error) ==
  [success |-> success, output |-> output, agentName |-> agentName, error |-> error]

NoResponseText == "Failed to get response from API"
SubMaxIterationsText == <<"Maximum iterations reached.">>

\* String(e)
StringOf(e) == <<"String", e>>

\* the content of the tool_result block pushed for one tool_use
SubToolResult(id, content) == [type |-> "tool_result", tool_use_id |-> id, content |-> content]

\* what the provider asks for in the tool turns of one run, and what it says at the end
SubAsks ==
  {<<"ReadFile">>, <<"Bash">>, <<"Task">>, <<"SearchVault">>, <<"WriteFile">>,
   <<"ListFiles", "Task">>}
SubTexts == {<<>>, <<"found">>, <<"found", "done">>}

\* the command of the provider's Bash tool uses in one run
SubCommands == {BashLsCall.input, BashRmCall.input}

\* no runLocal call has been made
SubIdle(asks, handlerThrows, backend) ==
  [pc |-> "idle", asks |-> asks, handlerThrows |-> handlerThrows, backend |-> backend,
   agentType |-> "explore", config |-> createExploreConfig, tools |-> {}, handlers |-> {},
   messages |-> <<>>, i |-> 0, streamCalls |-> 0, response |-> [kind |-> "none"],
   toolUses |-> <<>>, toolResults |-> <<>>, spawned |-> 0, settled |-> "pending",
   result |-> SubResult(FALSE, <<>>, "", Undefined), command |-> BashLsCall.input]

SubAbsent == SubIdle(<<"ReadFile">>, FALSE, FALSE)

-----------------------------------------------------------------------------
(* The initial state *)

\* the store of the UI when the REPL is mounted; last, input and prevMode record
\* the most recent user action, the text it submitted and the mode before it
ReplMounted ==
  [mode |-> "agent", isProcessing |-> FALSE, exited |-> FALSE, signalAborted |-> FALSE,
   call |-> <<>>, said |-> "", last |-> "none", input |-> <<>>, prevMode |-> "agent"]

Init == AgentInit /\ fnIn = [op |-> "none"] /\ fnOut = <<>> /\ repl = ReplMounted /\ sub = SubAbsent

Spec == Init /\ [][Next]_vars

-----------------------------------------------------------------------------
(* Provider adapters: the retry loop of stream *)

Providers == {"openai", "anthropic", "bedrock"}

RETRY_DELAYS == <<1000, 2000, 4000>>

\* What one attempt does: it answers ("ok") or fails, with an HTTP status of the
\* upstream or with a network-layer failure, which carries no status; streamed
\* says whether text had been streamed when it failed.
AttemptOutcome(kind, streamed) == [kind |-> kind, streamed |-> streamed]

Failures ==
  {"http400", "http401", "http429", "http500", "http502", "http503", "http529", "network"}

\* isRetryable of the catch block of each adapter.  The OpenAI-compatible adapter
\* reads the status it put on the error, and a failed fetch has none.  The
\* Anthropic adapter goes by the SDK's error class: InternalServerError (a status
\* of 500 or more), RateLimitError (429), APIConnectionError (no status), or
\* status 529.  The Bedrock adapter goes by the exception name:
\* ThrottlingException (429), ServiceUnavailableException (503),
\* ModelTimeoutException (408).
isRetryable(provider, kind) ==
  CASE provider = "openai" -> kind \in {"http429", "http500", "http502", "http503", "http529"}
    [] provider = "anthropic" ->
         kind \in {"http500", "http502", "http503", "http529", "http429", "network"}
    [] provider = "bedrock" -> kind \in {"http429", "http503"}

LogAttempt == [type |-> "attempt", n |-> 0]
LogStatus(n) == [type |-> "status", n |-> n]
LogSleep(ms) == [type |-> "sleep", n |-> ms]
LogError == [type |-> "error", n |-> 0]
LogText == [type |-> "text", n |-> 0]

ErrorPrefix(provider) == IF provider = "bedrock" THEN "Bedrock error" ELSE "API error"

\* the Anthropic adapter closes a text that was being streamed
ClosedText(provider, failed) ==
  IF provider = "anthropic" /\ failed.streamed THEN <<LogText>> ELSE <<>>

\* the statements after the retry loop
StreamGivesUp(provider, last, log, deltas) ==
  [resolved |-> TRUE,
   content |-> <<TextBlock(ErrorPrefix(provider))>>,
   log |-> log \o ClosedText(provider, last) \o <<LogError>>,
   deltas |-> deltas]

\* The text of the answer arrives in two text deltas, each handed to onEvent as
\* a TEXT_DELTA event; an attempt that fails after streaming has handed over the
\* first of them.
AnswerDeltas == << <<"a", "n", "s">>, <<"w", "e", "r">> >>

DeltasOf(o) ==
  IF o.kind = "ok" THEN AnswerDeltas
  ELSE IF o.streamed THEN <<AnswerDeltas[1]>>
  ELSE <<>>

MayRetryAlways(attempt) == TRUE

\* if (attempt < RETRY_DELAYS.length)
MayRetry(attempt) == attempt < Len(RETRY_DELAYS)

\* RETRY_DELAYS[attempt]: reading past the end of the array gives undefined,
\* which setTimeout takes as no delay
DelayAt(attempt) == IF attempt + 1 \in DOMAIN RETRY_DELAYS THEN RETRY_DELAYS[attempt + 1] ELSE 0

\* for (let attempt = 0; attempt <= RETRY_DELAYS.length; attempt++) { try ... catch ... };
\* last is the failure of the attempt before, with streamed reset once its text was closed
RECURSIVE StreamLoop(_, _, _, _, _, _)
StreamLoop(provider, outcomes, attempt, last, log, deltas) ==
  IF attempt > Len(RETRY_DELAYS) THEN StreamGivesUp(provider, last, log, deltas)
  ELSE LET o == outcomes[attempt + 1]
           tried == Append(log, LogAttempt)
           seen == deltas \o DeltasOf(o)
       IN IF o.kind = "ok"
          THEN [resolved |-> TRUE, content |-> <<TextBlock("answer")>>, log |-> tried,
                deltas |-> seen]
          ELSE IF ~isRetryable(provider, o.kind) THEN StreamGivesUp(provider, o, tried, seen)
          ELSE IF MayRetry(attempt)
          THEN StreamLoop(provider, outcomes, attempt + 1, AttemptOutcome(o.kind, FALSE),
                          tried \o ClosedText(provider, o)
                                \o <<LogStatus(attempt + 1), LogSleep(DelayAt(attempt))>>,
                          seen)
          ELSE StreamLoop(provider, outcomes, attempt + 1, o, tried, seen)

\* OpenAICompatibleProvider.stream, AnthropicProvider.stream, BedrockProvider.stream
providerStream(provider, authFails, outcomes) ==
  IF provider = "anthropic" /\ authFails
  THEN [resolved |-> TRUE, content |-> <<TextBlock("Authentication error")>>, log |-> <<LogError>>,
        deltas |-> <<>>]
  ELSE StreamLoop(provider, outcomes, 0, AttemptOutcome("ok", FALSE), <<>>, <<>>)

-----------------------------------------------------------------------------
(* Properties of the session recorder and of the agentic loop *)

HasToolUse(message) ==
  /\ message.role = "assistant"
  /\ message.content.isArray
  /\ \E i \in 1..Len(message.content.blocks) : message.content.blocks[i].type = "tool_use"

\* the ids of the tool_use blocks of a message, in order
RECURSIVE IdsOfToolUses(_)
IdsOfToolUses(blocks) ==
  IF Len(blocks) = 0 THEN <<>>
  ELSE IF Head(blocks).type = "tool_use"
       THEN <<Head(blocks).id>> \o IdsOfToolUses(Tail(blocks))
       ELSE IdsOfToolUses(Tail(blocks))

\* message is a user message holding exactly one tool_result per id, in order
AnswersToolUses(message, ids) ==
  /\ message.role = "user"
  /\ message.content.isArray
  /\ Len(message.content.blocks) = Len(ids)
  /\ \A i \in 1..Len(ids) :
       /\ message.content.blocks[i].type = "tool_result"
       /\ message.content.blocks[i].tool_use_id = ids[i]

\* C1: once a processMessage call has returned, every assistant message with
\* tool_use blocks that the call recorded is directly followed by one user
\* message holding one tool_result per tool_use id, in the same order.
C1_ToolUsePairedAfterReturn ==
  (pc = "idle" /\ outcome = "returned") =>
    \A k \in (callBase + 1)..Len(entries) :
      HasToolUse(entries[k]) =>
        /\ k < Len(entries)
        /\ AnswersToolUses(entries[k + 1], IdsOfToolUses(entries[k].content.blocks))

\* a returned call recorded a turn with two tool uses, one of which failed
C1_Witness ==
  /\ pc = "idle"
  /\ outcome = "returned"
  /\ \E k \in (callBase + 1)..(Len(entries) - 1) :
       /\ HasToolUse(entries[k])
       /\ Len(IdsOfToolUses(entries[k].content.blocks)) = 2
       /\ \E i \in 1..Len(entries[k + 1].content.blocks) :
            entries[k + 1].content.blocks[i].content.text = "error"

\* the API messages of the session as it was when the current call began
PriorMessages == SelectSeq(SubSeq(entries, 1, callBase), LAMBDA e : e.role # "system")

DanglingAtCall ==
  /\ Len(PriorMessages) > 0
  /\ HasToolUse(PriorMessages[Len(PriorMessages)])

IsErrorResult(block, id) ==
  /\ block.type = "tool_result"
  /\ block.tool_use_id = id
  /\ "is_error" \in DOMAIN block
  /\ block.is_error = TRUE

\* C2: when processMessage is called on a session that ends with an assistant
\* turn with tool_use blocks and no tool results, the history passed to every
\* provider stream call of that call holds, right after that turn, a user
\* message with an is_error tool_result for each orphaned tool_use id.
C2_DanglingRepairedInSentHistory ==
  (pc # "idle" /\ streamCalls > 0 /\ DanglingAtCall) =>
    LET d == Len(PriorMessages)
        ids == IdsOfToolUses(PriorMessages[d].content.blocks)
    IN /\ Len(sent) > d
       /\ sent[d] = PriorMessages[d]
       /\ sent[d + 1].role = "user"
       /\ sent[d + 1].content.isArray
       /\ Len(sent[d + 1].content.blocks) = Len(ids)
       /\ \A i \in 1..Len(ids) : IsErrorResult(sent[d + 1].content.blocks[i], ids[i])

\* out is the API-ready history of the session entries
IsRepairedHistory(out, sessionEntries) ==
  LET msgs == SelectSeq(sessionEntries, LAMBDA e : e.role # "system")
      n == Len(msgs)
  IN IF n > 0 /\ HasToolUse(msgs[n])
     THEN LET ids == IdsOfToolUses(msgs[n].content.blocks)
          IN /\ Len(out) = n + 1
             /\ SubSeq(out, 1, n) = msgs
             /\ out[n + 1].role = "user"
             /\ out[n + 1].content.isArray
             /\ Len(out[n + 1].content.blocks) = Len(ids)
             /\ \A i \in 1..Len(ids) :
                  /\ IsErrorResult(out[n + 1].content.blocks[i], ids[i])
                  /\ out[n + 1].content.blocks[i].content = StringContent(InterruptedText)
     ELSE out = msgs

\* C3: for a session ending with an assistant turn with n >= 1 tool_use blocks,
\* getApiMessages returns the recorded user/assistant messages followed by one
\* new user message with n is_error tool_result blocks, in order, with the fixed
\* interruption text and the matching ids; for any other session it appends
\* nothing; the session's entries are unchanged in both cases.
C3_GetApiMessagesRepairs ==
  [][(apiOut = <<>> /\ apiOut' # <<>>) =>
       (entries' = entries /\ IsRepairedHistory(apiOut'[1], entries))]_vars

\* the history of a session interrupted after two tool uses was read
C3_Witness ==
  /\ apiOut # <<>>
  /\ Len(entries) > 0
  /\ HasToolUse(entries[Len(entries)])
  /\ Len(IdsOfToolUses(entries[Len(entries)].content.blocks)) = 2
  /\ Len(apiOut[1]) = Len(entries) + 1

WritingTools == {"WriteFile", "Bash", "ExecuteCadQuery", "ExportModel"}

BlockedFailure(res) == ~res.success /\ res.blocked

\* C9: during a plan-mode processMessage call the tools offered to the provider
\* hold no writing or executing tool, and every Tool Executor call for such a
\* tool is a blocked failure whose handler does not run.
C9_PlanModeIsReadOnly ==
  (pc # "idle" /\ mode = "plan") =>
    /\ tools \cap WritingTools = {}
    /\ lastExec.name \in WritingTools =>
         (~lastExec.handlerInvoked /\ ~lastExec.threw /\ BlockedFailure(lastExec.result))

\* C10: whenever processMessage has returned or thrown, the Tool Executor's
\* permission configuration is the configured one again; the plan-mode override
\* is in force only while a plan-mode call runs.
C10_PermissionsRestored ==
  /\ pc = "idle" => permissions = settings.permissions
  /\ (pc # "idle" /\ mode # "plan") => permissions = settings.permissions

\* a plan-mode call has ended by an exception and the override is gone
C10_Witness ==
  /\ pc = "idle"
  /\ outcome = "threw"
  /\ mode = "plan"
  /\ permissions = settings.permissions
  /\ permissions # getPlanModePermissions

MaxIterationsText == "Maximum iterations reached. Please try a simpler request."

\* the assistant turns with tool_use blocks that the current call recorded
ToolTurns == {k \in (callBase + 1)..Len(entries) : HasToolUse(entries[k])}

\* C11: when every provider response of a call holds a tool_use block (the
\* cancel signal is not raised and every Tool Executor call returns),
\* processMessage makes exactly 20 stream calls, executes the tools of each and
\* returns the fixed maximum-iterations message; no call makes a 21st stream call.
C11_IterationCap ==
  /\ streamCalls <= MAX_ITERATIONS
  /\ (pc = "idle" /\ outcome = "returned" /\ ~aborted /\ Cardinality(ToolTurns) = streamCalls) =>
       /\ streamCalls = MAX_ITERATIONS
       /\ iter = MAX_ITERATIONS
       /\ retText = MaxIterationsText
       /\ \A k \in ToolTurns :
            k < Len(entries) /\ AnswersToolUses(entries[k + 1], IdsOfToolUses(entries[k].content.blocks))

\* a call whose every response asked for a tool has returned the fixed message
C11_Witness ==
  /\ pc = "idle"
  /\ outcome = "returned"
  /\ retText = MaxIterationsText
  /\ streamCalls = MAX_ITERATIONS
  /\ Cardinality(ToolTurns) = MAX_ITERATIONS

MarkedAsError(block) == "is_error" \in DOMAIN block /\ block.is_error = TRUE

\* C13: the tool_result block collected for a failed tool execution (denied,
\* blocked by a hook, no handler, handler exception) has the JSON object
\* {error: <error text>} as content and carries is_error=true; the block for a
\* successful one carries the JSON of the result and is not marked as an error.
C13_FailureBlockIsMarked ==
  (pc # "idle" /\ lastExec.name # "none" /\ ~lastExec.threw /\ toolResults # <<>>) =>
    LET block == toolResults[Len(toolResults)]
    IN /\ block.type = "tool_result"
       /\ block.content.json
       /\ IF lastExec.result.success
          THEN /\ block.content.text = "result"
               /\ block.content.value = lastExec.result.result
               /\ ~MarkedAsError(block)
          ELSE /\ block.content.text = "error"
               /\ block.content.error = lastExec.result.error
               /\ MarkedAsError(block)

\* the items of the trace of the given type
Emitted(type) == SelectSeq(trace, LAMBDA e : e.type = type)

\* the current call ran on an empty session, every tool turn it recorded holds
\* one tool_use, and it returned on a text-only turn
ReturnedAfterSingleToolTurns ==
  /\ pc = "idle"
  /\ outcome = "returned"
  /\ callBase = 0
  /\ retText = "answer"
  /\ \A t \in ToolTurns : Len(IdsOfToolUses(entries[t].content.blocks)) = 1

CancelledText == "Cancelled by user."

\* C15: when the cancel signal is set as a loop iteration begins, the call
\* emits one error event and returns 'Cancelled by user.' at once; once the
\* signal is set the call starts no further provider stream call.
C15_CancelStopsTheLoop ==
  [][(pc = "loop" /\ aborted /\ iter < MAX_ITERATIONS) =>
       /\ pc' = "idle"
       /\ outcome' = "returned"
       /\ retText' = CancelledText
       /\ trace' = Append(trace, Item("error", 0, FALSE))
       /\ streamCalls' = streamCalls
       /\ entries' = entries]_vars

\* a call was cancelled after a complete iteration
C15_Witness ==
  /\ pc = "idle"
  /\ outcome = "returned"
  /\ retText = CancelledText
  /\ aborted
  /\ streamCalls = 1
  /\ Len(Emitted("error")) = 1
  /\ trace[Len(trace)].type = "error"

\* the executeAsync calls and the tool-result events of the current call, in order
ExecItems == SelectSeq(trace, LAMBDA e : e.type \in {"execute", "tool_result"})

\* C16: the tool_use blocks of one provider turn are executed one after another
\* in the order the provider emitted them: the execution of a block starts only
\* after the tool-result event of the block before it, and the tool_result
\* blocks are collected in the same order.
C16_ToolsRunInOrder ==
  (toolUses # <<>> /\ (pc = "tools" \/ (pc = "loop" /\ trace[Len(trace)].type = "tool_result"))) =>
    LET n == Len(toolResults)
        m == Len(ExecItems)
    IN /\ m >= 2 * n
       /\ \A j \in 1..n :
            /\ ExecItems[m - 2 * n + 2 * j - 1] = Item("execute", toolUses[j].id, FALSE)
            /\ ExecItems[m - 2 * n + 2 * j].type = "tool_result"
            /\ ExecItems[m - 2 * n + 2 * j].id = toolUses[j].id
            /\ toolResults[j].tool_use_id = toolUses[j].id

\* both tools of a turn with two tool uses have been executed
C16_Witness ==
  /\ pc = "loop"
  /\ Len(toolUses) = 2
  /\ Len(toolResults) = 2
  /\ trace[Len(trace)].type = "tool_result"
  /\ toolUses[1].id # toolUses[2].id

\* C17: every provider stream call of an ask-mode processMessage call is passed
\* no tool definition; every one of an agent-mode call is passed all the tool
\* definitions of the registry.
C17_ToolsPassedByMode ==
  (pc # "idle" /\ streamCalls > 0) =>
    /\ mode = "ask" => tools = {}
    /\ mode = "agent" => tools = {ToolDefinitions[i] : i \in 1..Len(ToolDefinitions)}

\* an ask-mode call has called the provider
C17_Witness ==
  /\ pc # "idle"
  /\ streamCalls > 0
  /\ mode = "ask"
  /\ tools = {}

-----------------------------------------------------------------------------
(* Inputs of the pure-function specification *)

PatChars == {"a", "/", "*", "?"}
ArgChars == {"a", "b", "/"}

\* the examples of the specification's glob property
PatStarStar == <<"*", "*">>
PatStarTxt == <<"*", ".", "t", "x", "t">>
ArgDeep == <<"a", "/", "b", "/", "c", ".", "t", "x", "t">>
ArgFlat == <<"c", ".", "t", "x", "t">>

Patterns == (SeqsUpTo(PatChars, MaxPatLen) \ {<<>>}) \cup {PatStarStar, PatStarTxt}
Arguments == SeqsUpTo(ArgChars, MaxArgLen) \cup {ArgDeep, ArgFlat}

QueryTools == {"ReadFile", "Bash"}

MatchQueries ==
  [op : {"matchRule"}, rule : {Rule("ReadFile", p) : p \in Patterns},
   toolName : QueryTools, argument : Arguments]

\* calls of matchesHook: matchers of the form Tool(pattern), the bare wildcard and
\* bare tool names
MatcherQueries ==
  [op : {"matchesHook"},
   matcher : {Rule("ReadFile", p) : p \in Patterns}
             \cup {Bare("*"), Bare("ReadFile"), Bare("Bash")},
   toolName : QueryTools, toolArg : Arguments]

\* rules of the enumerated permission configurations
EvalRules ==
  { Rule("Bash", <<"a", "*">>), Rule("Bash", <<"*">>),
    Rule("ReadFile", <<"*", "*">>), Rule("ReadFile", <<"a">>), Bare("*") }

EvalArguments == { <<>>, <<"a">>, <<"a", "b">>, <<"a", "/", "b">> }

\* deny / allow / ask lists holding at most MaxRules rules in total
PermissionConfigs ==
  UNION { UNION { { [deny |-> d, allow |-> a, ask |-> k] :
                      k \in SeqsUpTo(EvalRules, MaxRules - Len(d) - Len(a)) } :
                  a \in SeqsUpTo(EvalRules, MaxRules - Len(d)) } :
          d \in SeqsUpTo(EvalRules, MaxRules) }

\* calls of the two entry points of the Tool Executor
ExecQueries ==
  [op : {"execute", "executeAsync"}, call : ToolCalls,
   permissions : {DefaultPermissions, AllowAllPermissions, getPlanModePermissions},
   hooks : {NoHooks, SomeHooks}, env : ExecEnvs]

\* what a hook command may do: ExitCodes, another exit status, a timeout, no start
HookOutcomes == ExitCodes \cup {3, StatusNull, NoStatus}

\* calls of the Tool Executor in which the hooks of the tool fail in every way
HookFailureQueries ==
  [op : {"execute", "executeAsync"}, call : {WriteCall, BashLsCall, CadCall},
   permissions : {AllowAllPermissions}, hooks : {SomeHooks},
   env : [answer : {"true"}, exits : [HookCommands -> HookOutcomes], handler : HandlerOutcomes]]

\* calls of a provider adapter's stream: what each of the four attempts does;
\* the upstream of one call answers, refuses the credentials or fails in one other way
AttemptOutcomes(provider, failure) ==
  { AttemptOutcome(k, st) : k \in {"ok", "http401", failure},
                            st \in IF provider = "openai" THEN {FALSE} ELSE BOOLEAN }

StreamQueries ==
  UNION { UNION { [op : {"stream"}, provider : {pr},
                   authFails : IF pr = "anthropic" THEN BOOLEAN ELSE {FALSE},
                   outcomes : [1..(Len(RETRY_DELAYS) + 1) -> AttemptOutcomes(pr, f)]] :
                  f \in Failures } : pr \in Providers }

\* a history of n distinct messages, user and assistant turns alternating
History(n) ==
  [i \in 1..n |-> Message(IF i % 2 = 1 THEN "user" ELSE "assistant", Text(ToString(i)))]

\* calls of compactMessages
CompactQueries ==
  [op : {"compactMessages"}, messages : {History(n) : n \in 0..MaxHistory},
   summary : {"summary"}, keepRecent : 0..MaxKeep]

\* hook configurations for the calls of runHooks: several configurations match one call
ManyHooks ==
  << [event |-> "PreToolUse", matcher |-> Bare("*"), hooks |-> <<HookDef("h1")>>],
     [event |-> "SessionStart", matcher |-> Bare(Undefined),
      hooks |-> <<HookDef("h3"), HookDef("h1")>>],
     [event |-> "PreToolUse", matcher |-> Rule("WriteFile", <<"a", "*">>),
      hooks |-> <<HookDef("h2"), HookDef("h3")>>] >>

\* calls of runHooks
RunHooksQueries ==
  [op : {"runHooks"}, hooks : {SomeHooks, ManyHooks},
   event : {"PreToolUse", "PostToolUse", "SessionStart"},
   toolName : {"WriteFile", "Bash"}, toolArg : {<<"a", "b">>, <<"b">>},
   exits : [HookCommands -> ExitCodes]]

EvalQueries ==
  { [op |-> "evaluatePermission", permissions |-> cfg, toolName |-> t, argument |-> a] :
      cfg \in PermissionConfigs,
      t \in QueryTools, a \in EvalArguments }

-----------------------------------------------------------------------------
(* Backend client: streamCadSubagent reads the server-sent events of a subagent *)

\* The wire text is a sequence of symbols: the prefixes "event: " and "data: ", the
\* symbols of an event name and of a JSON text, and the newline "\n".
\* A JSON text is <<"{text:", t, "}">>; anything else fails JSON.parse.
JsonParses(data) == Len(data) = 3 /\ data[1] = "{text:" /\ data[3] = "}"

\* (data.text as string) ?? ''
JsonText(data) == data[2]

\* buffer.split('\n')
RECURSIVE splitNewline(_)
splitNewline(text) ==
  IF \A i \in 1..Len(text) : text[i] # "\n" THEN <<text>>
  ELSE LET k == CHOOSE i \in 1..Len(text) :
                  text[i] = "\n" /\ \A j \in 1..(i - 1) : text[j] # "\n"
       IN <<SubSeq(text, 1, k - 1)>> \o splitNewline(DropTo(text, k + 1))

\* for (const line of lines) { ... } : st holds currentEvent, currentData,
\* finalOutput and the events handed to onSSEEvent so far
RECURSIVE parseSseLines(_, _)
parseSseLines(lines, st) ==
  IF lines = <<>> THEN st
  ELSE LET line == Head(lines) IN
       parseSseLines(Tail(lines),
         IF Len(line) > 0 /\ line[1] = "event: "
           THEN [st EXCEPT !.currentEvent = Tail(line)]
         ELSE IF Len(line) > 0 /\ line[1] = "data: "
           THEN [st EXCEPT !.currentData = Tail(line)]
         ELSE IF line = <<>> /\ st.currentEvent # <<>>
           THEN IF JsonParses(st.currentData)
                THEN [currentEvent |-> <<>>, currentData |-> <<>>,
                      delivered |-> Append(st.delivered,
                                           [event |-> st.currentEvent,
                                            data |-> st.currentData]),
                      finalOutput |-> IF st.currentEvent = <<"completion">>
                                      THEN <<JsonText(st.currentData)>>
                                      ELSE st.finalOutput]
                ELSE [st EXCEPT !.currentEvent = <<>>, !.currentData = <<>>]
         ELSE st)

\* while (true) { read; if (done) break; ... } : each read appends to the buffer,
\* keeps the last incomplete line, and starts with currentEvent = currentData = ''
RECURSIVE sseReadLoop(_, _, _)
sseReadLoop(reads, buffer, st) ==
  IF reads = <<>> THEN st
  ELSE LET lines == splitNewline(buffer \o Head(reads))
       IN sseReadLoop(Tail(reads), lines[Len(lines)],
                      parseSseLines(SubSeq(lines, 1, Len(lines) - 1),
                                    [st EXCEPT !.currentEvent = <<>>,
                                               !.currentData = <<>>]))

\* response is "ok" with a body read in the given reads, "error" for a status that
\* is not ok, "nobody" for an answer without a body
streamCadSubagent(response, reads) ==
  IF response = "error"
    THEN [success |-> FALSE, output |-> <<>>, error |-> "Engine API error", delivered |-> <<>>]
  ELSE IF response = "nobody"
    THEN [success |-> FALSE, output |-> <<>>, error |-> "No response body from SSE endpoint",
          delivered |-> <<>>]
  ELSE LET st == sseReadLoop(reads, <<>>,
                             [currentEvent |-> <<>>, currentData |-> <<>>,
                              delivered |-> <<>>, finalOutput |-> <<>>])
       IN [success |-> TRUE, output |-> st.finalOutput, error |-> "",
           delivered |-> st.delivered]

\* the wire text of one event: its event line, its data line and a blank line
SseEvent(name, data) ==
  <<"event: ", name, "\n", "data: ">> \o data \o <<"\n", "\n">>

JsonOf(text) == <<"{text:", text, "}">>

\* events a subagent stream is made of; the data of the third is not JSON
SseEvents ==
  { SseEvent("status", JsonOf("1")), SseEvent("completion", JsonOf("1")),
    SseEvent("status", <<"{text:">>), SseEvent("completion", JsonOf("2")) }

RECURSIVE Concat(_)
Concat(seqs) == IF seqs = <<>> THEN <<>> ELSE Head(seqs) \o Concat(Tail(seqs))

\* the ways a text arrives in at most n non-empty reads
RECURSIVE Splits(_, _)
Splits(text, n) ==
  IF text = <<>> THEN {<<>>}
  ELSE IF n = 1 THEN {<<text>>}
  ELSE UNION { { <<SubSeq(text, 1, k)>> \o r : r \in Splits(DropTo(text, k + 1), n - 1) } :
               k \in 1..Len(text) }

\* calls of streamCadSubagent: what the engine answers and how its body is read
SseQueries ==
  UNION { [op : {"streamCadSubagent"}, response : {"ok"}, events : {ev},
           reads : Splits(Concat(ev), MaxReads)] : ev \in SeqsUpTo(SseEvents, MaxSseEvents) }
  \cup [op : {"streamCadSubagent"}, response : {"error", "nobody"}, events : {<<>>},
        reads : {<<>>}]

\* Bash commands whose first word is rm or sudo: with and without leading white
\* space, without arguments, and with arguments that hold "/" or more spaces
RmWords == { <<"r", "m">>, <<"s", "u", "d", "o">> }
RmRests == { <<>>, <<" ", "a">>, <<" ", "/">>, <<" ", "a", "/", "b">>, <<" ", " ", "a">>,
             <<" ", "-", "r", " ", "a">> }
RmCommands == { lead \o word \o rest : lead \in {<<>>, <<" ">>}, word \in RmWords,
                                       rest \in RmRests }

\* calls of the Tool Executor for these commands under the default settings
RmQueries ==
  [op : {"execute", "executeAsync"}, call : {ToolCall("Bash", <<c>>) : c \in RmCommands},
   permissions : {DefaultPermissions}, hooks : {NoHooks}, env : {DefaultEnv}]

-----------------------------------------------------------------------------
(* Specification of the pure functions: draw an input, apply the function *)

\* the Agent is not constructed in the pure-function specification
AgentAbsent ==
  /\ longRun = FALSE
  /\ conc = ConcIdle
  /\ settings = DefaultSettings
  /\ entries = EmptySession
  /\ permissions = settings.permissions
  /\ contextState = createContextState
  /\ pc = "absent"
  /\ mode = "agent"
  /\ aborted = FALSE
  /\ originalPermissions = settings.permissions
  /\ tools = {}
  /\ messages = <<>>
  /\ iter = 0
  /\ toolUses = <<>>
  /\ toolResults = <<>>
  /\ sent = <<>>
  /\ streamCalls = 0
  /\ lastExec = Done(NoExec)
  /\ outcome = "none"
  /\ retText = ""
  /\ callBase = 0
  /\ apiOut = <<>>
  /\ trace = <<>>

PureInit ==
  /\ fnIn \in MatchQueries \cup EvalQueries \cup ExecQueries \cup StreamQueries
             \cup CompactQueries \cup RunHooksQueries \cup HookFailureQueries
             \cup MatcherQueries \cup SseQueries \cup RmQueries
  /\ fnOut = <<>>
  /\ repl = ReplMounted
  /\ sub = SubAbsent
  /\ AgentAbsent

CallMatchRule ==
  /\ fnOut = <<>>
  /\ fnIn.op = "matchRule"
  /\ fnOut' = <<matchRule(fnIn.rule, fnIn.toolName, fnIn.argument)>>
  /\ UNCHANGED <<fnIn, repl, sub, agentVars>>

CallEvaluatePermission ==
  /\ fnOut = <<>>
  /\ fnIn.op = "evaluatePermission"
  /\ fnOut' = <<evaluatePermission(fnIn.permissions, fnIn.toolName, fnIn.argument)>>
  /\ UNCHANGED <<fnIn, repl, sub, agentVars>>

CallExecute ==
  /\ fnOut = <<>>
  /\ fnIn.op = "execute"
  /\ fnOut' = <<execute(fnIn.call.name, fnIn.call.input, fnIn.permissions,
                        loadHookConfigs(fnIn.hooks), fnIn.env)>>
  /\ UNCHANGED <<fnIn, repl, sub, agentVars>>

CallExecuteAsync ==
  /\ fnOut = <<>>
  /\ fnIn.op = "executeAsync"
  /\ fnOut' = <<executeAsync(fnIn.call.name, fnIn.call.input, fnIn.permissions,
                             loadHookConfigs(fnIn.hooks), fnIn.env)>>
  /\ UNCHANGED <<fnIn, repl, sub, agentVars>>

CallStream ==
  /\ fnOut = <<>>
  /\ fnIn.op = "stream"
  /\ fnOut' = <<providerStream(fnIn.provider, fnIn.authFails, fnIn.outcomes)>>
  /\ UNCHANGED <<fnIn, repl, sub, agentVars>>

\* compactMessages, and then compactMessages again on its own result
CallCompactMessages ==
  /\ fnIn.op = "compactMessages"
  /\ Len(fnOut) < 2
  /\ fnOut' = Append(fnOut, compactMessages(IF fnOut = <<>> THEN fnIn.messages ELSE fnOut[1],
                                            fnIn.summary, fnIn.keepRecent))
  /\ UNCHANGED <<fnIn, repl, sub, agentVars>>

CallRunHooks ==
  /\ fnOut = <<>>
  /\ fnIn.op = "runHooks"
  /\ fnOut' = <<runHooks(loadHookConfigs(fnIn.hooks), fnIn.event, fnIn.toolName, fnIn.toolArg,
                         fnIn.exits)>>
  /\ UNCHANGED <<fnIn, repl, sub, agentVars>>

CallMatchesHook ==
  /\ fnOut = <<>>
  /\ fnIn.op = "matchesHook"
  /\ fnOut' = <<matchesHook(fnIn.matcher, fnIn.toolName, fnIn.toolArg)>>
  /\ UNCHANGED <<fnIn, repl, sub, agentVars>>

CallStreamCadSubagent ==
  /\ fnOut = <<>>
  /\ fnIn.op = "streamCadSubagent"
  /\ fnOut' = <<streamCadSubagent(fnIn.response, fnIn.reads)>>
  /\ UNCHANGED <<fnIn, repl, sub, agentVars>>

PureNext ==
  \/ CallStreamCadSubagent
  \/ CallMatchesHook
  \/ CallCompactMessages
  \/ CallRunHooks
  \/ CallMatchRule
  \/ CallEvaluatePermission
  \/ CallExecute
  \/ CallExecuteAsync
  \/ CallStream

SpecPure == PureInit /\ [][PureNext]_vars

-----------------------------------------------------------------------------
(* The interaction modes of the REPL (agent/modes.ts, ui/Repl.tsx, ui/store.ts) *)

UpperCase == <<"A", "B", "C", "D", "E", "F", "G", "H", "I", "J", "K", "L", "M",
               "N", "O", "P", "Q", "R", "S", "T", "U", "V", "W", "X", "Y", "Z">>
LowerCase == <<"a", "b", "c", "d", "e", "f", "g", "h", "i", "j", "k", "l", "m",
               "n", "o", "p", "q", "r", "s", "t", "u", "v", "w", "x", "y", "z">>

\* String.prototype.toLowerCase
toLowerCase(s) ==
  [i \in 1..Len(s) |->
     IF \E k \in 1..Len(UpperCase) : UpperCase[k] = s[i]
     THEN LowerCase[CHOOSE k \in 1..Len(UpperCase) : UpperCase[k] = s[i]]
     ELSE s[i]]

WhiteSpace == {" ", "\n"}

\* String.prototype.trim
trim(s) ==
  LET kept == {i \in 1..Len(s) : s[i] \notin WhiteSpace}
  IN IF kept = {} THEN <<>>
     ELSE SubSeq(s, CHOOSE i \in kept : \A j \in kept : i <= j,
                    CHOOSE i \in kept : \A j \in kept : j <= i)

\* String.prototype.includes
includes(s, part) ==
  \E i \in 0..(Len(s) - Len(part)) : SubSeq(s, i + 1, i + Len(part)) = part

\* String.prototype.startsWith
startsWith(s, prefix) ==
  Len(prefix) <= Len(s) /\ SubSeq(s, 1, Len(prefix)) = prefix

\* input.split(/\s+/, 2) of a trimmed input: the first two words
splitTwo(s) ==
  LET gaps == {i \in 1..Len(s) : s[i] \in WhiteSpace}
      end1 == IF gaps = {} THEN Len(s) + 1 ELSE CHOOSE i \in gaps : \A j \in gaps : i <= j
      after == {i \in (end1 + 1)..Len(s) : s[i] \notin WhiteSpace}
      start2 == IF after = {} THEN Len(s) + 1 ELSE CHOOSE i \in after : \A j \in after : i <= j
      gaps2 == {i \in start2..Len(s) : s[i] \in WhiteSpace}
      end2 == IF gaps2 = {} THEN Len(s) + 1 ELSE CHOOSE i \in gaps2 : \A j \in gaps2 : i <= j
  IN IF gaps = {} THEN <<s>>
     ELSE <<SubSeq(s, 1, end1 - 1), SubSeq(s, start2, end2 - 1)>>

ModeOrder == <<"agent", "plan", "ask">>

nextModeBackwards(m) ==
  LET idx == (CHOOSE k \in 1..Len(ModeOrder) : ModeOrder[k] = m) - 1
  IN ModeOrder[((idx + 2) % Len(ModeOrder)) + 1]

\* nextMode: order[(order.indexOf(mode) + 1) % order.length]
nextMode(m) ==
  LET idx == (CHOOSE k \in 1..Len(ModeOrder) : ModeOrder[k] = m) - 1
  IN ModeOrder[((idx + 1) % Len(ModeOrder)) + 1]

PROCEED_PHRASES ==
  <<<<"p", "r", "o", "c", "e", "e", "d">>,
    <<"g", "o", " ", "a", "h", "e", "a", "d">>,
    <<"d", "o", " ", "i", "t">>,
    <<"e", "x", "e", "c", "u", "t", "e">>,
    <<"i", "m", "p", "l", "e", "m", "e", "n", "t">>,
    <<"b", "u", "i", "l", "d", " ", "i", "t">>,
    <<"m", "a", "k", "e", " ", "i", "t">>,
    <<"l", "e", "t", "'", "s", " ", "g", "o">>,
    <<"s", "t", "a", "r", "t">>,
    <<"r", "u", "n", " ", "i", "t">>>>

hasProceedIntentCaseSensitive(userInput) ==
  LET lower == trim(userInput)
  IN \E k \in 1..Len(PROCEED_PHRASES) : includes(lower, PROCEED_PHRASES[k])

\* hasProceedIntent: a phrase is a substring of the lower-cased, trimmed input
hasProceedIntent(userInput) ==
  LET lower == trim(toLowerCase(userInput))
  IN \E k \in 1..Len(PROCEED_PHRASES) : includes(lower, PROCEED_PHRASES[k])

\* the skill slash commands of the project: one skill whose prompt is "Make it printable."
SkillCommand == <<"/", "c", "a", "d">>
SkillPrompt == <<"M", "a", "k", "e", " ", "i", "t", " ", "p", "r", "i", "n", "t", "a", "b", "l", "e", ".">>
UserRequest == <<"\n", "\n", "U", "s", "e", "r", " ", "r", "e", "q", "u", "e", "s", "t", ":", " ">>

\* the built-in commands that change nothing but the display
DisplayCommands == {<<"/", "h", "e", "l", "p">>,
                    <<"/", "m", "o", "d", "e">>,
                    <<"/", "s", "k", "i", "l", "l", "s">>,
                    <<"/", "s", "e", "s", "s", "i", "o", "n", "s">>}
QuitCommands == {<<"/", "q", "u", "i", "t">>, <<"/", "e", "x", "i", "t">>}
ProviderPrefix == <<"/", "p", "r", "o", "v", "i", "d", "e", "r">>

\* what handleSubmit hands to agent.processMessage
userInputOf(input) ==
  LET parts == splitTwo(input)
  IN IF parts[1] = SkillCommand
     THEN SkillPrompt \o UserRequest \o (IF Len(parts) > 1 THEN parts[2] ELSE <<>>)
     ELSE input

\* what the user types at the prompt
RawInputs ==
  {<<"P", "r", "o", "c", "e", "e", "d">>,
   <<"G", "O", " ", "A", "H", "E", "A", "D">>,
   <<" ", "d", "o", " ", "i", "t", " ">>,
   <<"r", "e", "s", "t", "a", "r", "t">>,
   <<"h", "e", "l", "l", "o">>,
   <<"p", "l", "a", "n">>,
   <<"/", "p", "l", "a", "n">>,
   <<"/", "a", "g", "e", "n", "t">>,
   <<"/", "a", "s", "k">>,
   <<"/", "m", "o", "d", "e">>,
   <<"!", "r", "u", "n", " ", "i", "t">>,
   <<"/", "c", "a", "d", " ", "B", "o", "x">>,
   <<"/", "q", "u", "i", "t">>,
   <<>>,
   <<"/", "p", "r", "o", "v", "i", "d", "e", "r", " ", "s", "t", "a", "r", "t">>,
   <<"L", "e", "t", "'", "s", " ", "G", "o", " ", "n", "o", "w">>}

\* handleSubmit, up to the call of agent.processMessage
handleSubmit(st, rawInput) ==
  LET input == trim(rawInput)
      userInput == userInputOf(input)
      seen == [st EXCEPT !.last = "submit", !.input = rawInput, !.prevMode = st.mode,
                         !.call = <<>>, !.said = ""]
      currentMode == IF st.mode = "plan" /\ hasProceedIntent(userInput) THEN "agent" ELSE st.mode
  IN IF input = <<>> THEN seen
     ELSE IF startsWith(input, <<"!">>) THEN [seen EXCEPT !.said = "shell"]
     ELSE IF input \in QuitCommands THEN [seen EXCEPT !.exited = TRUE]
     ELSE IF input = <<"/", "h", "e", "l", "p">> THEN [seen EXCEPT !.said = "help"]
     ELSE IF input = <<"/", "a", "g", "e", "n", "t">>
       THEN [seen EXCEPT !.mode = "agent", !.said = "Switched to AGENT mode."]
     ELSE IF input = <<"/", "p", "l", "a", "n">>
       THEN [seen EXCEPT !.mode = "plan", !.said = "Switched to PLAN mode."]
     ELSE IF input = <<"/", "a", "s", "k">>
       THEN [seen EXCEPT !.mode = "ask", !.said = "Switched to ASK mode."]
     ELSE IF input \in DisplayCommands THEN [seen EXCEPT !.said = "info"]
     ELSE IF startsWith(input, ProviderPrefix) THEN [seen EXCEPT !.said = "provider"]
     ELSE [seen EXCEPT !.mode = currentMode,
                       !.said = IF currentMode # st.mode
                                THEN "Switched to AGENT mode to execute the plan." ELSE "",
                       !.isProcessing = TRUE,
                       !.signalAborted = FALSE,
                       !.call = <<[userInput |-> userInput, mode |-> currentMode]>>]

\* the user submits a line; the prompt takes no input while a message is processed
ReplSubmit ==
  /\ ~repl.exited
  /\ ~repl.isProcessing
  /\ \E rawInput \in RawInputs : repl' = handleSubmit(repl, rawInput)
  /\ UNCHANGED <<fnIn, fnOut, sub, agentVars>>

\* Shift+Tab: cycle the mode, only when no message is processed
ReplShiftTab ==
  /\ ~repl.exited
  /\ repl' = [repl EXCEPT !.last = "cycle", !.prevMode = repl.mode,
                          !.mode = IF repl.isProcessing THEN repl.mode ELSE nextMode(repl.mode)]
  /\ UNCHANGED <<fnIn, fnOut, sub, agentVars>>

\* Ctrl+C: cancel the running call, or leave the REPL
ReplCtrlC ==
  /\ ~repl.exited
  /\ repl' = IF repl.isProcessing
             THEN [repl EXCEPT !.last = "ctrlc", !.prevMode = repl.mode, !.signalAborted = TRUE]
             ELSE [repl EXCEPT !.last = "ctrlc", !.prevMode = repl.mode, !.exited = TRUE]
  /\ UNCHANGED <<fnIn, fnOut, sub, agentVars>>

\* agent.processMessage returns or throws: the finally block of handleSubmit
ReplProcessed ==
  /\ ~repl.exited
  /\ repl.isProcessing
  /\ \E threw \in BOOLEAN :
       repl' = [repl EXCEPT !.last = "processed", !.prevMode = repl.mode,
                            !.isProcessing = FALSE,
                            !.said = IF threw /\ repl.signalAborted THEN "Cancelled."
                                     ELSE IF threw THEN "error" ELSE repl.said]
  /\ UNCHANGED <<fnIn, fnOut, sub, agentVars>>

ReplNext ==
  \/ ReplSubmit
  \/ ReplShiftTab
  \/ ReplCtrlC
  \/ ReplProcessed

ReplInit == repl = ReplMounted /\ sub = SubAbsent /\ fnIn = [op |-> "none"] /\ fnOut = <<>> /\ AgentAbsent

SpecRepl == ReplInit /\ [][ReplNext]_vars

-----------------------------------------------------------------------------
(* The subagent executor: SubagentExecutor.runLocal *)

SubInit ==
  /\ \E asks \in SubAsks, handlerThrows \in BOOLEAN, backend \in BOOLEAN :
       \E command \in SubCommands :
         sub = [SubIdle(asks, handlerThrows, backend) EXCEPT !.command = command]
  /\ fnIn = [op |-> "none"]
  /\ fnOut = <<>>
  /\ repl = ReplMounted
  /\ AgentAbsent

\* runLocal up to the loop: the configuration, the tools, the handlers, the first message
SubRunLocal ==
  /\ sub.pc = "idle"
  /\ \E agentType \in SubagentTypes, withContext \in BOOLEAN :
       LET config == getSubagentConfig(agentType)
       IN sub' = [sub EXCEPT !.pc = "loop", !.agentType = agentType, !.config = config,
                             !.tools = subagentTools(config),
                             !.handlers = buildToolHandlers(config),
                             !.messages = <<Message("user", IF withContext THEN "context and task"
                                                                           ELSE "prompt")>>]
  /\ UNCHANGED <<fnIn, fnOut, repl, agentVars>>

SubLoopContinuesInclusive(s) == s.i <= s.config.maxIterations

\* for (let i = 0; i < config.maxIterations; i++)
SubLoopContinues(s) == s.i < s.config.maxIterations

SubSettle(s, response, result) ==
  [s EXCEPT !.pc = "done", !.streamCalls = s.streamCalls + 1, !.response = response,
            !.settled = "resolved", !.result = result]

\* the provider answers without a tool_use
SubStreamText ==
  /\ sub.pc = "loop"
  /\ SubLoopContinues(sub)
  /\ \E texts \in SubTexts :
       sub' = SubSettle(sub, [kind |-> "text", texts |-> texts],
                        SubResult(TRUE, joinLines(texts), sub.config.name, Undefined))
  /\ UNCHANGED <<fnIn, fnOut, repl, agentVars>>

\* the provider returns no response
SubStreamNull ==
  /\ sub.pc = "loop"
  /\ SubLoopContinues(sub)
  /\ sub' = SubSettle(sub, [kind |-> "null"],
                      SubResult(FALSE, <<>>, sub.config.name, NoResponseText))
  /\ UNCHANGED <<fnIn, fnOut, repl, agentVars>>

\* the provider throws: the catch of runLocal
SubStreamThrows ==
  /\ sub.pc = "loop"
  /\ SubLoopContinues(sub)
  /\ \E e \in {"connection refused"} :
       sub' = SubSettle(sub, [kind |-> "throw", e |-> e],
                        SubResult(FALSE, <<>>, sub.config.name, StringOf(e)))
  /\ UNCHANGED <<fnIn, fnOut, repl, agentVars>>

\* the provider asks for tools
SubStreamToolUse ==
  /\ sub.pc = "loop"
  /\ SubLoopContinues(sub)
  /\ LET content == [k \in 1..Len(sub.asks) |->
                       ToolUseBlock(<<sub.streamCalls + 1, k>>, sub.asks[k],
                                    IF sub.asks[k] = "Bash" THEN sub.command
                                    ELSE << <<"a">> >>)]
     IN sub' = [sub EXCEPT !.pc = "tools", !.streamCalls = sub.streamCalls + 1,
                           !.response = [kind |-> "tools"],
                           !.messages = Append(sub.messages, Message("assistant", content)),
                           !.toolUses = content, !.toolResults = <<>>]
  /\ UNCHANGED <<fnIn, fnOut, repl, agentVars>>

\* one tool_use of the response: its handler, or the missing handler; after the
\* last one the results become a user message and the next iteration begins
SubExecuteTool ==
  /\ sub.pc = "tools"
  /\ LET toolUse == sub.toolUses[Len(sub.toolResults) + 1]
         name == toolUse.name
         content ==
           IF name \notin sub.handlers THEN [error |-> <<"No handler for tool", name>>]
           ELSE IF name = "SearchVault" /\ ~sub.backend
             THEN [error |-> <<"Backend not available for SearchVault">>]
           ELSE IF sub.handlerThrows THEN [error |-> StringOf("handler failed")]
           ELSE [error |-> <<>>]
         results == Append(sub.toolResults, SubToolResult(toolUse.id, content))
         last == Len(results) = Len(sub.toolUses)
     IN sub' = [sub EXCEPT !.toolResults = results,
                           !.spawned = IF name \in sub.handlers /\ name = "Task"
                                       THEN sub.spawned + 1 ELSE sub.spawned,
                           !.messages = IF last THEN Append(sub.messages, Message("user", results))
                                        ELSE sub.messages,
                           !.i = IF last THEN sub.i + 1 ELSE sub.i,
                           !.pc = IF last THEN "loop" ELSE "tools"]
  /\ UNCHANGED <<fnIn, fnOut, repl, agentVars>>

\* the loop ends at the iteration cap
SubMaxIterations ==
  /\ sub.pc = "loop"
  /\ ~SubLoopContinues(sub)
  /\ sub' = [sub EXCEPT !.pc = "done", !.settled = "resolved",
                        !.result = SubResult(TRUE, SubMaxIterationsText, sub.config.name, Undefined)]
  /\ UNCHANGED <<fnIn, fnOut, repl, agentVars>>

SubNext ==
  \/ SubRunLocal
  \/ SubStreamText
  \/ SubStreamNull
  \/ SubStreamThrows
  \/ SubStreamToolUse
  \/ SubExecuteTool
  \/ SubMaxIterations

\* every awaited promise settles: the provider answers or throws, a handler returns or throws
SpecSub == SubInit /\ [][SubNext]_vars /\ WF_vars(SubNext)

-----------------------------------------------------------------------------
(* Two processMessage calls on one Agent: the permission swap around the loop *)

\* the tool calls the provider of either call may ask for
ConcToolCalls == {ReadCall, WriteCall}

\* processMessage up to the call of runAgenticLoop: originalPermissions is read
\* from the executor, and a plan-mode call installs the override
ConcProcessMessage(i, m) ==
  /\ conc.calls[i].pc = "idle"
  /\ conc' = [conc EXCEPT
       !.permissions = IF m = "plan" THEN getPlanModePermissions ELSE @,
       !.calls[i] = [@ EXCEPT !.pc = "loop", !.mode = m,
                              !.originalPermissions = conc.permissions]]

\* executeAsync of one tool_use of call i: the permission check reads the
\* executor's permissions as they are at that moment
ConcExecuteTool(i, call) ==
  /\ conc.calls[i].pc = "loop"
  /\ conc' = [conc EXCEPT
       !.calls[i] = [@ EXCEPT
          !.evaluated = @ \cup {conc.permissions},
          !.perm = evaluatePermission(conc.permissions, call.name,
                                      extractPermissionArg(call.name, call.input))]]

\* the finally block of processMessage, reached by return and by exception
ConcReturn(i) ==
  /\ conc.calls[i].pc = "loop"
  /\ conc' = [conc EXCEPT !.permissions = conc.calls[i].originalPermissions,
                          !.calls[i] = [@ EXCEPT !.pc = "returned"]]

ConcOthersUnchanged ==
  UNCHANGED <<fnIn, fnOut, repl, sub, settings, entries, permissions, contextState, pc, mode,
              aborted, originalPermissions, tools, messages, iter, toolUses, toolResults,
              sent, streamCalls, lastExec, outcome, retText, callBase, apiOut, trace, longRun>>

ConcStarts == \E i \in ConcCalls, m \in Modes : ConcProcessMessage(i, m) /\ ConcOthersUnchanged

ConcExecutes ==
  \E i \in ConcCalls, call \in ConcToolCalls : ConcExecuteTool(i, call) /\ ConcOthersUnchanged

ConcReturns == \E i \in ConcCalls : ConcReturn(i) /\ ConcOthersUnchanged

ConcInit ==
  /\ fnIn = [op |-> "none"]
  /\ fnOut = <<>>
  /\ repl = ReplMounted
  /\ sub = SubAbsent
  /\ AgentAbsent

ConcNext ==
  \/ ConcStarts
  \/ ConcExecutes
  \/ ConcReturns

SpecConc == ConcInit /\ [][ConcNext]_vars

-----------------------------------------------------------------------------
(* Properties of the permission evaluator *)

SomeRuleMatches(rules, toolName, argument) ==
  \E r \in Range(rules) : matchRule(r, toolName, argument)

\* C4: evaluatePermission returns deny if any deny rule matches, otherwise
\* allow if any allow rule matches, otherwise ask; a matching deny rule is
\* never overridden by an allow or ask rule, wherever the rules stand.
C4_DenyAllowAskPrecedence ==
  (fnIn.op = "evaluatePermission" /\ fnOut # <<>>) =>
    LET p == fnIn.permissions
        t == fnIn.toolName
        a == fnIn.argument
    IN fnOut[1] = IF SomeRuleMatches(p.deny, t, a) THEN "deny"
                  ELSE IF SomeRuleMatches(p.allow, t, a) THEN "allow"
                  ELSE "ask"

\* a call matched by a deny rule and by an allow rule was evaluated to deny
C4_Witness ==
  /\ fnIn.op = "evaluatePermission"
  /\ fnOut = <<"deny">>
  /\ SomeRuleMatches(fnIn.permissions.deny, fnIn.toolName, fnIn.argument)
  /\ SomeRuleMatches(fnIn.permissions.allow, fnIn.toolName, fnIn.argument)

\* The glob reading of a pattern as the specification words it: `**` is any
\* character sequence, `*` any sequence without "/", `?` one character, any
\* other character stands for itself.
RECURSIVE GlobMatches(_, _)
GlobMatches(p, s) ==
  IF Len(p) = 0 THEN Len(s) = 0
  ELSE IF Len(p) >= 2 /\ p[1] = "*" /\ p[2] = "*"
       THEN \E k \in 0..Len(s) : GlobMatches(DropTo(p, 3), DropTo(s, k + 1))
  ELSE IF p[1] = "*"
       THEN \E k \in 0..Len(s) :
              /\ \A j \in 1..k : s[j] # "/"
              /\ GlobMatches(Tail(p), DropTo(s, k + 1))
  ELSE /\ Len(s) > 0
       /\ (p[1] = "?" \/ p[1] = s[1])
       /\ GlobMatches(Tail(p), Tail(s))

\* C5: a rule Name(pattern) matches a call exactly when Name is the tool name
\* and the whole argument matches the pattern read as a glob (`**` crosses
\* "/", `*` does not, `?` is one character). The pattern that is the lone `*`
\* is the wildcard that matches any argument and is left out.
C5_RuleMatchesAsGlob ==
  (fnIn.op = "matchRule" /\ fnOut # <<>> /\ fnIn.rule.pat # Star) =>
    fnOut[1] = (/\ fnIn.rule.head = fnIn.toolName
                /\ GlobMatches(fnIn.rule.pat, fnIn.argument))

-----------------------------------------------------------------------------
(* Properties of the tool executor *)

Executed == fnIn.op \in {"execute", "executeAsync"} /\ fnOut # <<>>

\* C6: in execute and executeAsync, when a matching PreToolUse hook exits with
\* code 2 the handler is not invoked and the call returns success=false,
\* blocked=true with an error that carries that hook's stderr.
C6_PreHookBlockPreventsHandler ==
  Executed =>
    \A k \in 1..Len(fnOut[1].pre) :
      fnOut[1].pre[k].exitCode = 2 =>
        /\ ~fnOut[1].handlerInvoked
        /\ ~fnOut[1].threw
        /\ BlockedFailure(fnOut[1].result)
        /\ fnOut[1].result.error = ErrorText("Blocked by hook", <<"stderr", fnOut[1].pre[k].command>>)

\* the second hook of a WriteFile call exited with code 2 after the first one
\* failed without blocking
C6_Witness ==
  /\ Executed
  /\ Len(fnOut[1].pre) = 2
  /\ fnOut[1].pre[1].exitCode = 1
  /\ fnOut[1].pre[2].exitCode = 2
  /\ fnIn.env.handler = "ok"

\* C7: in execute and executeAsync, when permission evaluates to ask and the
\* confirmation callback answers negatively (false, or a promise of false), the
\* call is a blocked failure and neither the PreToolUse hooks nor the handler run.
C7_NegativeAnswerBlocks ==
  (Executed /\ fnOut[1].perm = "ask" /\ fnIn.env.answer \in {"false", "promise_false"}) =>
    /\ ~fnOut[1].threw
    /\ BlockedFailure(fnOut[1].result)
    /\ fnOut[1].pre = <<>>
    /\ ~fnOut[1].handlerInvoked

\* C8: when permission evaluates to ask and the callback's promise rejects,
\* executeAsync does not throw: it returns a blocked failure and the handler
\* is not invoked.
C8_RejectedAnswerBlocks ==
  (fnIn.op = "executeAsync" /\ fnOut # <<>> /\ fnOut[1].perm = "ask"
     /\ fnIn.env.answer = "promise_reject") =>
    /\ ~fnOut[1].threw
    /\ BlockedFailure(fnOut[1].result)
    /\ ~fnOut[1].handlerInvoked

-----------------------------------------------------------------------------
(* Properties of the provider adapters *)

AllTransient ==
  /\ ~fnIn.authFails
  /\ \A i \in DOMAIN fnIn.outcomes :
       /\ fnIn.outcomes[i].kind # "ok"
       /\ isRetryable(fnIn.provider, fnIn.outcomes[i].kind)

\* the log without the text events that close a streamed text
WithoutText(log) == SelectSeq(log, LAMBDA e : e.type # "text")

TransientFailures == {"http429", "http500", "http502", "http503", "http529", "network"}

\* the number of attempts the stream call under study made
Attempts == Len(SelectSeq(fnOut[1].log, LAMBDA e : e.type = "attempt"))

\* C28: every adapter retries a failed attempt if and only if the failure is
\* transient (HTTP 429, 500, 502, 503, 529, or a network-layer failure without a
\* status) and retries remain; after any other failure it makes no further
\* attempt and emits no retry status event; the call resolves with a text response.
C28_RetryIffTransient ==
  (fnIn.op = "stream" /\ fnOut # <<>> /\ ~fnIn.authFails) =>
    /\ fnOut[1].resolved
    /\ Len(fnOut[1].content) = 1
    /\ fnOut[1].content[1].type = "text"
    /\ Len(SelectSeq(fnOut[1].log, LAMBDA e : e.type = "status")) = Attempts - 1
    /\ \A i \in 1..Attempts :
         fnIn.outcomes[i].kind # "ok" =>
           ((i < Attempts) <=> (/\ fnIn.outcomes[i].kind \in TransientFailures
                                /\ i <= Len(RETRY_DELAYS)))

-----------------------------------------------------------------------------
(* Properties of the interaction modes *)

\* the text says a proceed phrase, whatever the case of its letters
SaysProceed(text) ==
  \E k \in 1..Len(PROCEED_PHRASES) :
    \E i \in 0..(Len(text) - Len(PROCEED_PHRASES[k])) :
      \A j \in 1..Len(PROCEED_PHRASES[k]) :
        toLowerCase(<<text[i + j]>>) = <<PROCEED_PHRASES[k][j]>>

\* the message the REPL has just handed to the agent
Submitted == repl.last = "submit" /\ repl.call # <<>>

\* C18: the interaction mode is always one of agent, plan, ask; the cycle command
\* takes agent to plan, plan to ask and ask to agent, so that three applications
\* return the starting mode; a message submitted in plan mode whose text says a
\* proceed phrase, in any letter case, is handed to the agent in agent mode with
\* the mode switched to agent; a message submitted in agent or ask mode, proceed
\* phrase or not, leaves the mode as it was.
C18_ModeMachine ==
  /\ repl.mode \in {"agent", "plan", "ask"}
  /\ (repl.last = "cycle" /\ ~repl.isProcessing) =>
       \/ repl.prevMode = "agent" /\ repl.mode = "plan"
       \/ repl.prevMode = "plan" /\ repl.mode = "ask"
       \/ repl.prevMode = "ask" /\ repl.mode = "agent"
  /\ nextMode(nextMode(nextMode(repl.mode))) = repl.mode
  /\ (Submitted /\ repl.prevMode = "plan" /\ SaysProceed(repl.call[1].userInput)) =>
       repl.mode = "agent" /\ repl.call[1].mode = "agent"
  /\ (Submitted /\ repl.prevMode \in {"agent", "ask"}) =>
       repl.mode = repl.prevMode /\ repl.call[1].mode = repl.prevMode

\* a proceed phrase in capital letters, submitted in plan mode, reached the agent in agent mode
C18_Witness ==
  /\ Submitted
  /\ repl.prevMode = "plan"
  /\ repl.input = <<"G", "O", " ", "A", "H", "E", "A", "D">>
  /\ repl.mode = "agent"
  /\ repl.call[1].mode = "agent"

-----------------------------------------------------------------------------
(* Properties of the subagent executor *)

\* the tool_result of the k-th tool_use of the current response says no handler exists
NoHandlerResult(k) ==
  sub.toolResults[k].content.error = <<"No handler for tool", sub.toolUses[k].name>>

\* C19: for each subagent role, explore and plan, neither the tool definitions
\* offered to the provider nor the handler table of runLocal contains Task; a
\* tool_use for Task inside a subagent gets the missing-handler result and no
\* subagent is ever started from within a subagent.
C19_NoDelegationInSubagents ==
  /\ \A agentType \in SubagentTypes :
       /\ "Task" \notin subagentTools(getSubagentConfig(agentType))
       /\ "Task" \notin buildToolHandlers(getSubagentConfig(agentType))
  /\ sub.pc # "idle" =>
       /\ "Task" \notin sub.tools
       /\ "Task" \notin sub.handlers
       /\ sub.spawned = 0
       /\ \A k \in 1..Len(sub.toolResults) :
            sub.toolUses[k].name = "Task" => NoHandlerResult(k)

\* a plan subagent's provider asked for Task and got the missing-handler result
C19_Witness ==
  /\ sub.agentType = "plan"
  /\ sub.pc = "loop"
  /\ sub.spawned = 0
  /\ \E k \in 1..Len(sub.toolResults) :
       /\ sub.toolUses[k].name = "Task"
       /\ sub.toolResults[k].tool_use_id = sub.toolUses[k].id
       /\ NoHandlerResult(k)

\* the result of a runLocal call that has ended, by what the provider did last
SubOutcome ==
  sub.pc = "done" =>
    /\ sub.settled = "resolved"
    /\ sub.result.agentName = sub.agentType
    /\ sub.response.kind = "text" =>
         /\ sub.result.success
         /\ sub.result.output = joinLines(sub.response.texts)
         /\ sub.result.error = Undefined
    /\ sub.response.kind = "tools" =>
         /\ sub.result.success
         /\ sub.result.output = <<"Maximum iterations reached.">>
         /\ sub.streamCalls = 10
         /\ Len(sub.messages) = 1 + 2 * 10
    /\ sub.response.kind = "throw" =>
         /\ ~sub.result.success
         /\ sub.result.error = StringOf(sub.response.e)

\* C20: runLocal always resolves and never rejects: with success and the joined
\* text as soon as a response has no tool_use, with success and 'Maximum
\* iterations reached.' after exactly 10 provider calls that all asked for
\* tools, and with failure and the captured error text when the provider throws.
C20_RunLocalAlwaysResolves ==
  /\ [](sub.settled # "rejected" /\ sub.streamCalls <= 10 /\ SubOutcome)
  /\ (sub.pc # "idle") ~> (sub.pc = "done" /\ sub.settled = "resolved")

\* ten tool turns, then the iteration cap
C20_Witness ==
  /\ sub.pc = "done"
  /\ sub.streamCalls = 10
  /\ sub.response.kind = "tools"
  /\ sub.result.success
  /\ sub.result.output = <<"Maximum iterations reached.">>

-----------------------------------------------------------------------------
(* Properties of the context manager *)

\* C21: compactMessages returns the input unchanged when it has at most keepRecent
\* messages; otherwise it returns exactly keepRecent+1 messages, a user-role summary
\* message followed by the last keepRecent messages in their order; compacting its
\* result again with the same summary and keepRecent gives an equal sequence.
C21_CompactKeepsRecent ==
  (fnIn.op = "compactMessages" /\ fnOut # <<>>) =>
    LET m == fnIn.messages
        k == fnIn.keepRecent
        r == fnOut[1]
    IN /\ Len(m) <= k => r = m
       /\ Len(m) > k =>
            /\ Len(r) = k + 1
            /\ r[1] = Message("user", Text(fnIn.summary))
            /\ \A j \in 1..k : r[j + 1] = m[Len(m) - k + j]
       /\ Len(fnOut) = 2 => fnOut[2] = r

\* C22: estimatedTokens is recomputed from the current history before every
\* provider stream call, the second and later ones of a processMessage call
\* included: at each call it is the estimate of the history being sent.
C22_TokensFreshAtEachCall ==
  streamCalls > 0 => contextState.estimatedTokens = estimateMessagesTokens(sent)

\* C23: whichever way processMessage returns (normal completion, provider
\* failure, cancellation, iteration cap) the session ends with an assistant
\* message carrying the text of that exit, never with a user turn.
C23_EveryExitRecordsAssistantTurn ==
  (pc = "idle" /\ outcome = "returned") =>
    /\ Len(entries) > 0
    /\ entries[Len(entries)] = Message("assistant", Text(retText))

-----------------------------------------------------------------------------
(* Properties of the hook runner *)

\* the hooks registered for the call of runHooks under study, in registration order
HooksOfCall ==
  getMatchingHooks(loadHookConfigs(fnIn.hooks), fnIn.event, fnIn.toolName, fnIn.toolArg)

\* C24: runHooks runs the hooks matching the event (and the tool and argument for
\* the tool events) in registration order and stops after the first result with
\* exit code 2: the returned list holds the results of the hooks that ran, in
\* order, the blocking result last, and no hook after the blocking one ran.
C24_HooksStopAtFirstBlock ==
  (fnIn.op = "runHooks" /\ fnOut # <<>>) =>
    LET hs == HooksOfCall
        r == fnOut[1]
    IN /\ Len(r) <= Len(hs)
       /\ \A i \in 1..Len(r) :
            /\ r[i].command = hs[i].command
            /\ r[i].exitCode = fnIn.exits[hs[i].command]
            /\ i < Len(r) => r[i].exitCode # 2
       /\ Len(r) < Len(hs) => (Len(r) > 0 /\ r[Len(r)].exitCode = 2)

\* of three matching hooks the second blocked and the third did not run
C24_Witness ==
  /\ fnIn.op = "runHooks"
  /\ fnOut # <<>>
  /\ Len(HooksOfCall) = 3
  /\ Len(fnOut[1]) = 2
  /\ fnOut[1][1].exitCode = 1
  /\ fnOut[1][2].exitCode = 2

-----------------------------------------------------------------------------
(* Properties of the tool executor's steps *)

\* the PreToolUse hooks registered for the executor call under study
PreHooksOfCall ==
  getMatchingHooks(loadHookConfigs(fnIn.hooks), "PreToolUse", fnOut[1].name, fnOut[1].arg)

\* a handler is registered for the tool of the executor call under study
HandlerRegistered ==
  fnOut[1].name \in SyncHandlers \cup (IF fnIn.op = "executeAsync" THEN AsyncHandlers ELSE {})

\* C25: a PreToolUse hook that ends neither with 0 nor with 2 (another exit status,
\* a timeout, a command that was not started, which gives exit code 1 with the
\* failure message in stderr) never makes the call throw and never blocks it: the
\* next hook runs, and after the last hook the handler.
C25_FailedPreHookDoesNotBlock ==
  Executed =>
    \A k \in 1..Len(fnOut[1].pre) :
      LET raw == fnIn.env.exits[fnOut[1].pre[k].command]
      IN raw \notin {0, 2} =>
           /\ ~fnOut[1].threw
           /\ fnOut[1].pre[k].exitCode \notin {0, 2}
           /\ raw = NoStatus =>
                /\ fnOut[1].pre[k].exitCode = 1
                /\ fnOut[1].pre[k].stderr = <<"message", fnOut[1].pre[k].command>>
           /\ fnOut[1].result.error # ErrorText("Blocked by hook", fnOut[1].pre[k].stderr)
           /\ k < Len(PreHooksOfCall) => Len(fnOut[1].pre) > k
           /\ (k = Len(PreHooksOfCall) /\ HandlerRegistered) => fnOut[1].handlerInvoked

\* the first hook of a WriteFile call was not started, the second timed out, and
\* the handler ran
C25_Witness ==
  /\ Executed
  /\ Len(fnOut[1].pre) = 2
  /\ fnIn.env.exits[fnOut[1].pre[1].command] = NoStatus
  /\ fnIn.env.exits[fnOut[1].pre[2].command] = StatusNull
  /\ fnOut[1].handlerInvoked
  /\ fnOut[1].result.success

\* the executor call under study passed the permission check and the PreToolUse hooks
ReachedHandlerLookup ==
  /\ fnOut[1].perm # "deny"
  /\ fnOut[1].perm = "ask" => fnIn.env.answer \in {"true", "promise_true"}
  /\ \A k \in 1..Len(fnOut[1].pre) : fnOut[1].pre[k].exitCode # 2

\* C26: when executeAsync finds no handler for the tool name, or the handler throws
\* or its promise rejects, it does not throw and returns success=false,
\* blocked=false with the error text; the permission was evaluated and every
\* matching PreToolUse hook had run before the handler was looked up.
C26_HandlerFailureIsNotBlocked ==
  (fnIn.op = "executeAsync" /\ fnOut # <<>> /\ ReachedHandlerLookup
     /\ (~HandlerRegistered \/ fnIn.env.handler \in {"throw", "reject"})) =>
    /\ ~fnOut[1].threw
    /\ ~fnOut[1].result.success
    /\ ~fnOut[1].result.blocked
    /\ fnOut[1].result.error =
         IF HandlerRegistered THEN ErrorText("exception", <<>>)
         ELSE ErrorText("No handler registered for tool", <<>>)
    /\ fnOut[1].handlerInvoked = HandlerRegistered
    /\ fnOut[1].perm = evaluatePermission(fnIn.permissions, fnOut[1].name, fnOut[1].arg)
    /\ Len(fnOut[1].pre) = Len(PreHooksOfCall)
    /\ fnOut[1].post = <<>>

\* RenderModel has no handler: the call failed without blocking
C26_Witness ==
  /\ fnIn.op = "executeAsync"
  /\ fnOut # <<>>
  /\ fnOut[1].name = "RenderModel"
  /\ ReachedHandlerLookup
  /\ ~HandlerRegistered
  /\ fnOut[1].result = Failure(ErrorText("No handler registered for tool", <<>>), FALSE)

\* the handler of the executor call under study failed: execute does not await,
\* so there a rejected promise is a returned value
HandlerFailed ==
  IF fnIn.op = "executeAsync" THEN fnIn.env.handler \in {"throw", "reject"}
  ELSE fnIn.env.handler = "throw"

\* the PostToolUse hooks registered for the executor call under study
PostHooksOfCall ==
  getMatchingHooks(loadHookConfigs(fnIn.hooks), "PostToolUse", fnOut[1].name, fnOut[1].arg)

-----------------------------------------------------------------------------
(* Properties of the two matchers *)

\* C29: for every matcher string, tool name and argument, matchesHook decides as
\* matchRule decides for the same string read as a permission rule, the bare
\* wildcard and a bare tool name included.
C29_HookMatcherAgreesWithRuleMatcher ==
  (fnIn.op = "matchesHook" /\ fnOut # <<>>) =>
    fnOut[1] = matchRule(fnIn.matcher, fnIn.toolName, fnIn.toolArg)

\* some deny rule of the configuration matches the call
DenyMatches ==
  FirstMatch(fnIn.permissions.deny, 1, fnIn.toolName, fnIn.argument) # 0

\* C30: the bare wildcard rule matches every call in whichever partition it is
\* listed: listed in deny the call evaluates to deny, listed in allow with no
\* matching deny rule the call evaluates to allow.
C30_BareWildcardMatchesEveryCall ==
  (fnIn.op = "evaluatePermission" /\ fnOut # <<>>) =>
    /\ Bare("*") \in Range(fnIn.permissions.deny) => fnOut[1] = "deny"
    /\ (Bare("*") \in Range(fnIn.permissions.allow) /\ ~DenyMatches) => fnOut[1] = "allow"

-----------------------------------------------------------------------------
(* Properties of the backend client's event stream *)

\* the well-formed events of the stream, as the callback would see them, in order
RECURSIVE WellFormedEvents(_)
WellFormedEvents(events) ==
  IF events = <<>> THEN <<>>
  ELSE LET e == Head(events)
           data == SubSeq(e, 5, Len(e) - 2)
       IN (IF JsonParses(data) THEN <<[event |-> <<e[2]>>, data |-> data]>> ELSE <<>>)
          \o WellFormedEvents(Tail(events))

\* the text of the last completion event of the stream
CompletionText ==
  LET wf == WellFormedEvents(fnIn.events)
      k == CHOOSE i \in 1..Len(wf) :
             wf[i].event = <<"completion">>
             /\ \A j \in (i + 1)..Len(wf) : wf[j].event # <<"completion">>
  IN <<JsonText(wf[k].data)>>

HasCompletion ==
  \E i \in 1..Len(WellFormedEvents(fnIn.events)) :
     WellFormedEvents(fnIn.events)[i].event = <<"completion">>

\* C31: for a stream that contains a completion event, streamCadSubagent returns
\* success with the text of that event as output and has handed every well-formed
\* event to the callback once and in stream order, however the stream is split
\* across reads.
C31_StreamDeliversEveryEvent ==
  (fnIn.op = "streamCadSubagent" /\ fnIn.response = "ok" /\ fnOut # <<>> /\ HasCompletion) =>
    /\ fnOut[1].success
    /\ fnOut[1].output = CompletionText
    /\ fnOut[1].delivered = WellFormedEvents(fnIn.events)

-----------------------------------------------------------------------------
(* Properties of the plan-mode override and of the mode's tool set *)

\* the Tool Executor has been called in the running processMessage call
ExecutorCalled == pc # "idle" /\ lastExec.name # "none"

\* C32: the plan-mode override is never more permissive than the configured
\* rules: a call that evaluates to deny under the configured permissions also
\* evaluates to deny while the override is installed.
C32_PlanOverrideKeepsDenials ==
  (ExecutorCalled /\ mode = "plan"
   /\ evaluatePermission(settings.permissions, lastExec.name, lastExec.arg) = "deny") =>
     lastExec.perm = "deny"


\* C33: the mode's tool set is enforced at execution: in ask mode no tool handler
\* is invoked, and in plan mode no handler of a tool outside the plan tool list,
\* also when the provider's response holds a tool_use block of a tool not offered.
C33_ModeToolSetEnforcedAtExecution ==
  (ExecutorCalled /\ lastExec.handlerInvoked) =>
    /\ mode # "ask"
    /\ mode = "plan" => lastExec.name \in PLAN_MODE_TOOLS

-----------------------------------------------------------------------------
(* Properties of the Bash handlers *)

\* the k-th tool_use of the subagent's current response is a Bash command that
\* the configured deny rules match
SubBashDenied(k) ==
  /\ sub.toolUses[k].name = "Bash"
  /\ evaluatePermission(settings.permissions, "Bash",
                        extractPermissionArg("Bash", sub.toolUses[k].input)) = "deny"

\* C34: no Bash command that the configured deny rules match is executed during a
\* processMessage call, neither through the Tool Executor nor by the Bash handler
\* of an explore subagent started through the Task tool.
C34_DeniedBashNeverRuns ==
  /\ (ExecutorCalled /\ lastExec.name = "Bash"
      /\ evaluatePermission(settings.permissions, "Bash", lastExec.arg) = "deny") =>
        ~lastExec.handlerInvoked
  /\ \A k \in 1..Len(sub.toolResults) :
       SubBashDenied(k) => sub.toolUses[k].name \notin sub.handlers


\* the first word of a command
FirstWord(cmd) == SplitSpaces(SkipSpaces(cmd), <<>>)[1]

\* C35: with the default permission settings every Bash call whose command's
\* first word is rm or sudo is a blocked failure by permission deny and its
\* handler does not run, whatever the rest of the command is.
C35_DefaultRulesDenyRmAndSudo ==
  (Executed /\ fnIn.permissions = DefaultPermissions /\ fnIn.call.name = "Bash"
   /\ FirstWord(fnIn.call.input[1]) \in RmWords) =>
     /\ fnOut[1].perm = "deny"
     /\ ~fnOut[1].handlerInvoked
     /\ BlockedFailure(fnOut[1].result)

-----------------------------------------------------------------------------
(* Properties of the history sent to the provider *)

\* the history of the running call as processMessage read it after recording
\* the user message
HistoryAtStart == getApiMessages(SubSeq(entries, 1, callBase + 1))

\* processMessage applied compaction at the start of the running call
CompactedAtStart ==
  /\ needsCompaction([contextState EXCEPT
                        !.estimatedTokens = estimateMessagesTokens(HistoryAtStart)])
  /\ Len(HistoryAtStart) > CompactMinMessages

\* the turns the running call had added to the session at its latest stream call
TurnsSince == SubSeq(entries, callBase + 2, callBase + 1 + 2 * (streamCalls - 1))

\* C36: if compaction is applied at the start of a processMessage call, every
\* provider stream call of that call receives the compacted history: the summary
\* message, the kept recent messages and the turns added since.
C36_EveryStreamCallGetsCompactedHistory ==
  (streamCalls > 0 /\ CompactedAtStart) =>
    sent = compactMessages(HistoryAtStart,
                           generateSummary(SubSeq(HistoryAtStart, 1, Len(HistoryAtStart) - 4)),
                           KeepRecentDefault) \o TurnsSince


\* every tool_result block of a history is in a message directly preceded by the
\* assistant message that holds its tool_use
ResultsFollowTheirUses(history) ==
  \A i \in 1..Len(history) :
    \A b \in 1..Len(history[i].content.blocks) :
      history[i].content.blocks[b].type = "tool_result" =>
        /\ i > 1
        /\ HasToolUse(history[i - 1])
        /\ history[i].content.blocks[b].tool_use_id
             \in Range(IdsOfToolUses(history[i - 1].content.blocks))

\* C37: the history produced by compaction in processMessage keeps tool pairing
\* intact: every tool_result block in it is preceded by the assistant message that
\* contains its tool_use, for every session history earlier calls can leave.
C37_CompactionKeepsToolPairing ==
  (streamCalls = 1 /\ CompactedAtStart) => ResultsFollowTheirUses(sent)

\* roles alternate, beginning with user
RolesAlternate(history) ==
  /\ Len(history) > 0 => history[1].role = "user"
  /\ \A i \in 1..(Len(history) - 1) : history[i].role # history[i + 1].role

\* C38: in the history passed to every provider stream call roles strictly
\* alternate beginning with user, after any sequence of processMessage calls on
\* one session, also calls that ended by cancellation or by the iteration cap.
C38_SentRolesAlternate ==
  streamCalls > 0 => RolesAlternate(sent)

-----------------------------------------------------------------------------
(* Properties of overlapping calls *)

\* both calls have returned or thrown
BothReturned == \A i \in ConcCalls : conc.calls[i].pc = "returned"

\* C39: if two processMessage calls on one Agent overlap, one of them in plan
\* mode, then once both have returned the executor's permission configuration is
\* the configured one, and no tool call of the agent-mode call was evaluated
\* under the plan-mode override.
C39_OverlappingCallsKeepPermissions ==
  /\ (BothReturned /\ \E i \in ConcCalls : conc.calls[i].mode = "plan") =>
       conc.permissions = settings.permissions
  /\ \A i \in ConcCalls :
       (conc.calls[i].pc # "idle" /\ conc.calls[i].mode = "agent") =>
         getPlanModePermissions \notin conc.calls[i].evaluated

-----------------------------------------------------------------------------
(* Properties of the text the observer receives *)

\* the characters of a text block: the answer is what its deltas add up to, a
\* synthesized error text is one symbol
TextOf(block) == IF block.text = "answer" THEN Concat(AnswerDeltas) ELSE <<block.text>>

\* the concatenated text of the text blocks of the returned response
ResponseText ==
  Concat([i \in 1..Len(fnOut[1].content) |->
            IF fnOut[1].content[i].type = "text" THEN TextOf(fnOut[1].content[i]) ELSE <<>>])

\* C40: for one provider stream call the concatenation of the text deltas handed
\* to the observer equals the concatenated text of the text blocks of the returned
\* response, also when an attempt fails after emitting deltas and the call is
\* retried or ends in the synthesized error response.
C40_DeltasAddUpToResponseText ==
  (fnIn.op = "stream" /\ fnOut # <<>>) => Concat(fnOut[1].deltas) = ResponseText

====
